---- MODULE Spec2Model ----
(***************************************************************************)
(* Streaming object transfer of garage-ui: the gRPC upload_object handler  *)
(* (object_service.rs), its three spawned tasks and the multipart upload   *)
(* orchestrator GarageS3Client::upload_object_multipart (s3/client.rs).    *)
(* The delete path is DeleteObjectsHandler::handle with                    *)
(* GarageS3Client::delete_objects_recursive, under its own specification   *)
(* SpecDelete.                                                             *)
(*                                                                         *)
(* Payload bytes are modelled by their position in the client's stream:    *)
(* the i-th byte the client sends is the number i, so the concatenation of *)
(* all chunks is <<1, 2, ..., N>>.                                         *)
(***************************************************************************)
EXTENDS Integers, Sequences, FiniteSets

\* ------------------------------------------------------------ bounds
\* part_size in bytes (5 MiB in the program, scaled)
PartSize == 2
\* largest chunk one request message carries, in bytes
MaxChunk == 5
\* largest total payload, in bytes
MaxTotal == 5
\* largest number of request messages after the metadata message
MaxMsgs == 2
\* largest declared content_length
MaxContentLength == 1
\* capacity of the chunk channel (32 in the program, scaled)
ChunkCap == 1
\* capacity of the progress channel (16 in the program, scaled)
ProgressCap == 1
\* capacity of the response channel (16 in the program, scaled)
ResponseCap == 1

\* keys listed per request (MAX_KEYS_PER_REQUEST, 1000 in the program, scaled)
PageSize == 2
\* largest number of objects under the folder prefix
MaxKeys == 5
\* largest number of keys in a delete command
MaxCmdKeys == 2

\* largest number of chunks an object body yields
MaxBodyChunks == 3
\* capacity of the download response channel (16 in the program, scaled)
DownloadCap == 2
\* largest number of alias calls on one BucketAggregate
MaxAliasOps == 4
\* listings the store may answer against its contract in one run
MaxBadPages == 1

\* ------------------------------------------------------------ values
\* upload ids the store may assign
UploadIds == {"u1", "u2"}
\* the ETag the store returns for a body: its digest, modelled by the body itself
ETagOf(body) == body

VARIABLES
    hpc,              \* position of the upload_object handler
    content_length,   \* metadata.content_length of the first message, -1 before it
    msgs,             \* request messages the client sent after the metadata message
    sent,             \* payload bytes the client has put in chunk messages
    fpc,              \* position of the chunk forwarding task
    fitem,            \* item the forwarding task is sending on chunk_tx
    chunk_q,          \* the chunk channel (chunk_tx -> chunk_rx)
    upc,              \* position of the upload task / orchestrator
    upload_id,        \* upload_id returned by CreateMultipartUpload
    part_number,      \* part_number of upload_object_multipart
    buffer,           \* buffer of upload_object_multipart
    part_data,        \* body of the part whose UploadPart call is in flight
    total_size,       \* total_size of upload_object_multipart
    completed_parts,  \* completed_parts of upload_object_multipart
    chunk_err,        \* the io::Error received from the chunk channel
    result,           \* what upload_object_multipart returned
    received,         \* concatenation of the chunks taken from the chunk channel
    calls,            \* every store call issued, in order, with its response
    progress_q,       \* the progress channel (progress_tx -> progress_rx)
    ppc,              \* position of the progress forwarding task
    pitem,            \* response the progress task is sending
    response_q,       \* the response channel (response_tx -> response_rx)
    response_rx,      \* TRUE while the client holds the response stream
    delivered,        \* messages the client has read from the response stream
    status,           \* Status returned by the handler itself, "" if none
    emitted,          \* events the progress channel accepted, in order
    dpc,              \* position of DeleteObjectsHandler::handle / delete_objects_recursive
    cmd_keys,         \* keys of the DeleteObjectsCommand
    bucket,           \* keys the store holds in the bucket
    bucket0,          \* keys the store held when the command arrived
    folder_keys,      \* folder_keys of the handler not yet deleted
    object_keys,      \* object_keys of the handler
    continuation_token, \* continuation_token of delete_objects_recursive
    list_result,      \* list_result of delete_objects_recursive
    all_deleted,      \* all_deleted of delete_objects_recursive
    all_errors,       \* all_errors of delete_objects_recursive
    handler_deleted,  \* all_deleted of the handler
    handler_errors,   \* all_errors of the handler
    outcome,          \* what the handler returned
    dcalls,           \* every listing and batch-delete call issued, with its response
    gpc,              \* position of the download_object handler and its streaming task
    get_cause,        \* why the store failed the GetObject call, "" if it did not
    dl_status,        \* Status code download_object itself returned, "" if none
    body_len,         \* chunks the object body holds
    body_read,        \* chunks the streaming task has read from the body
    ditem,            \* item the streaming task is sending on tx
    dl_q,             \* the download response channel (tx -> rx)
    dl_rx,            \* TRUE while the download client holds the response stream
    dl_sent,          \* items the download channel accepted, in order
    dl_delivered,     \* items the download client has read
    bkpc,             \* life of the BucketAggregate: "none", "live" or "failed"
    global_aliases,   \* global_aliases of the BucketAggregate
    alias_last,       \* the last add_global_alias / remove_global_alias call and its result
    alias_ops         \* alias calls made so far

vars == <<hpc, content_length, msgs, sent, fpc, fitem, chunk_q, upc, upload_id,
          part_number, buffer, part_data, total_size, completed_parts,
          chunk_err, result, received, calls, progress_q, ppc, pitem, response_q,
          response_rx, delivered, status, emitted,
          dpc, cmd_keys, bucket, bucket0, folder_keys, object_keys,
          continuation_token, list_result, all_deleted, all_errors,
          handler_deleted, handler_errors, outcome, dcalls,
          gpc, get_cause, dl_status, body_len, body_read, ditem, dl_q, dl_rx,
          dl_sent, dl_delivered, bkpc, global_aliases, alias_last, alias_ops>>

clientVars == <<msgs, sent>>
forwardVars == <<fpc, fitem>>
orchVars == <<upload_id, part_number, buffer, part_data, total_size,
              completed_parts, chunk_err, result, received>>
progressVars == <<ppc, pitem>>
outVars == <<response_q, response_rx, delivered, status>>
uploadVars == <<hpc, content_length, clientVars, forwardVars, chunk_q, upc, orchVars,
                calls, progress_q, progressVars, outVars, emitted>>
deleteVars == <<dpc, cmd_keys, bucket, bucket0, folder_keys, object_keys,
                continuation_token, list_result, all_deleted, all_errors,
                handler_deleted, handler_errors, outcome, dcalls>>
downloadVars == <<gpc, get_cause, dl_status, body_len, body_read, ditem, dl_q, dl_rx,
                  dl_sent, dl_delivered>>
bucketVars == <<bkpc, global_aliases, alias_last, alias_ops>>
otherVars == <<downloadVars, bucketVars>>

\* ------------------------------------------------------------ helpers
\* the bytes at positions a+1 .. a+n of the client's stream
Bytes(a, n) == [i \in 1..n |-> a + i]

\* Vec::drain(..n).collect(): the first n elements
Take(s, n) == SubSeq(s, 1, n)
\* a drain that empties the vector: the bytes after the first n are lost
DropAll(s, n) == <<>>
\* what Vec::drain(..n) leaves in the vector
Drop(s, n) == SubSeq(s, n + 1, Len(s))

\* a store call as it is issued: no response yet
Call(op, uid, pn, body, parts) ==
    [op |-> op, uid |-> uid, pn |-> pn, body |-> body, parts |-> parts,
     resp |-> "pending", etag |-> <<>>, newid |-> ""]

\* the response of the call issued last: r is "ok" or "err", e the ETag returned
Respond(cs, r, e) ==
    [cs EXCEPT ![Len(cs)] = [@ EXCEPT !.resp = r, !.etag = e]]
\* the response of CreateMultipartUpload carrying upload id uid
RespondId(cs, uid) ==
    [cs EXCEPT ![Len(cs)] = [@ EXCEPT !.resp = "ok", !.newid = uid]]

\* indices of the calls with a given operation
CallsOf(op) == {i \in 1..Len(calls) : calls[i].op = op}
\* indices of the calls whose response has not arrived
Outstanding == {i \in 1..Len(calls) : calls[i].resp = "pending"}

\* the receiver half of the chunk channel lives until upload_object_multipart returns
ChunkRxAlive == upc \notin {"send_result", "done"}
\* the sender half of the chunk channel lives until the forwarding task ends
ChunkTxAlive == fpc \in {"next", "send", "send_err"}
\* a progress sender that outlives upload_object_multipart
ProgressTxKept == TRUE
\* progress_tx is moved into upload_object_multipart and dropped when it returns
ProgressTxAlive == upc \notin {"send_result", "done"}
\* progress_rx lives until the progress forwarding task ends
ProgressRxAlive == ppc \in {"recv", "send"}

\* ------------------------------------------------------------ keys and the store
\* Keys are modelled by their rank in the store's listing order: the folder
\* key "folder/" is 0, the objects "folder/..." under it are 1..MaxKeys, and
\* one object outside the folder sorts after them.
FolderKey == 0
OtherKey == MaxKeys + 1
\* key.ends_with('/')
EndsWithSlash(k) == k = FolderKey
\* the store's prefix filter of ListObjectsV2
HasPrefix(k, prefix) == prefix = FolderKey /\ k \in FolderKey..MaxKeys

RECURSIVE SortedSeq(_)
\* the keys of a set in listing order
SortedSeq(S) ==
    IF S = {} THEN <<>>
    ELSE LET m == CHOOSE k \in S : \A j \in S : k <= j
         IN <<m>> \o SortedSeq(S \ {m})

\* the elements of a sequence
Range(q) == {q[i] : i \in 1..Len(q)}

\* ------------------------------------------------------------ initial state
\* Option<String>::None of a continuation token (tokens are key positions >= 0)
NoToken == -2
\* a ListObjectsOutput before any listing was made
NoPage == [objects |-> <<>>, is_truncated |-> FALSE, next_continuation_token |-> NoToken]
\* the handler has not returned
NoOutcome == [kind |-> "none", deleted |-> <<>>, errors |-> <<>>]

\* no delete command is being handled
DeleteIdle ==
    /\ folder_keys = <<>>
    /\ object_keys = <<>>
    /\ continuation_token = NoToken
    /\ list_result = NoPage
    /\ all_deleted = <<>>
    /\ all_errors = <<>>
    /\ handler_deleted = <<>>
    /\ handler_errors = <<>>
    /\ outcome = NoOutcome
    /\ dcalls = <<>>

\* no upload request has been read
UploadInit ==
    /\ hpc = "start"
    /\ content_length = -1
    /\ msgs = 0
    /\ sent = 0
    /\ fpc = "idle"
    /\ fitem = [ok |-> TRUE, data |-> <<>>, err |-> ""]
    /\ chunk_q = <<>>
    /\ upc = "idle"
    /\ upload_id = ""
    /\ part_number = 1
    /\ buffer = <<>>
    /\ part_data = <<>>
    /\ total_size = 0
    /\ completed_parts = <<>>
    /\ chunk_err = ""
    /\ result = [kind |-> "none", size |-> 0, etag |-> <<>>, msg |-> ""]
    /\ received = <<>>
    /\ calls = <<>>
    /\ progress_q = <<>>
    /\ ppc = "idle"
    /\ pitem = [type |-> "none", upload_id |-> "", part_number |-> 0,
                bytes_uploaded |-> 0, total_bytes |-> 0, size |-> 0, etag |-> <<>>]
    /\ response_q = <<>>
    /\ response_rx = TRUE
    /\ delivered = <<>>
    /\ status = ""
    /\ emitted = <<>>

\* an item of the download response stream
NoItem == [type |-> "none", chunk |-> 0]

\* no download_object request is being served
DownloadIdle ==
    /\ get_cause = ""
    /\ dl_status = ""
    /\ body_len = 0
    /\ body_read = 0
    /\ ditem = NoItem
    /\ dl_q = <<>>
    /\ dl_rx = TRUE
    /\ dl_sent = <<>>
    /\ dl_delivered = <<>>

\* no alias call was made
NoAliasCall == [op |-> "none", alias |-> <<>>, kind |-> "none"]

\* no BucketAggregate exists
BucketIdle ==
    /\ bkpc = "none"
    /\ global_aliases = <<>>
    /\ alias_last = NoAliasCall
    /\ alias_ops = 0

\* no delete command exists
DeleteOff ==
    /\ dpc = "idle"
    /\ cmd_keys = <<>>
    /\ bucket = {}
    /\ bucket0 = {}
    /\ DeleteIdle

\* an upload_object request arrives; no delete command is handled
Init ==
    /\ UploadInit
    /\ dpc = "idle"
    /\ cmd_keys = <<>>
    /\ bucket = {}
    /\ bucket0 = {}
    /\ DeleteIdle
    /\ gpc = "idle"
    /\ DownloadIdle
    /\ BucketIdle

\* ------------------------------------------------------------ messages
OkItem(data) == [ok |-> TRUE, data |-> data, err |-> ""]
ErrItem(e) == [ok |-> FALSE, data |-> <<>>, err |-> e]

NoMsg == [type |-> "none", upload_id |-> "", part_number |-> 0,
          bytes_uploaded |-> 0, total_bytes |-> 0, size |-> 0, etag |-> <<>>]
\* UploadProgress::Initiated and UploadResponseData::Initiated
Initiated(uid) == [NoMsg EXCEPT !.type = "Initiated", !.upload_id = uid]
\* an event that numbers the part one too high
PartUploadedOffByOne(pn, up, total) ==
    [NoMsg EXCEPT !.type = "PartUploaded", !.part_number = pn + 1,
                  !.bytes_uploaded = up, !.total_bytes = total]
\* UploadProgress::PartUploaded and UploadResponseData::Progress
PartUploaded(pn, up, total) ==
    [NoMsg EXCEPT !.type = "PartUploaded", !.part_number = pn,
                  !.bytes_uploaded = up, !.total_bytes = total]
\* UploadResponseData::Result
ResultMsg(size, etag) == [NoMsg EXCEPT !.type = "Result", !.size = size, !.etag = etag]
\* Err(Status::internal("Upload failed: ..."))
ErrorMsg == [NoMsg EXCEPT !.type = "Error"]

\* ------------------------------------------------------------ upload_object handler
\* a test that never takes the zero-length path
IsNegativeLength(cl) == cl < 0
\* the test of the zero-length path: metadata.content_length == 0
IsZeroLength(cl) == cl = 0

\* stream.next() yields nothing: Status::invalid_argument("Empty stream")
HandlerEmptyStream ==
    /\ hpc = "start"
    /\ hpc' = "rejected"
    /\ status' = "Empty stream"
    /\ UNCHANGED <<content_length, clientVars, forwardVars, chunk_q, upc, orchVars,
                   calls, progress_q, progressVars, response_q, response_rx, delivered>>
    /\ UNCHANGED <<emitted, deleteVars, otherVars>>

\* stream.next() yields an error: Status::internal("Stream error: ...")
HandlerStreamError ==
    /\ hpc = "start"
    /\ hpc' = "rejected"
    /\ status' = "Stream error"
    /\ UNCHANGED <<content_length, clientVars, forwardVars, chunk_q, upc, orchVars,
                   calls, progress_q, progressVars, response_q, response_rx, delivered>>
    /\ UNCHANGED <<emitted, deleteVars, otherVars>>

\* the first message is a chunk or carries no data: "First message must be metadata"
HandlerNotMetadata ==
    /\ hpc = "start"
    /\ hpc' = "rejected"
    /\ status' = "First message must be metadata"
    /\ UNCHANGED <<content_length, clientVars, forwardVars, chunk_q, upc, orchVars,
                   calls, progress_q, progressVars, response_q, response_rx, delivered>>
    /\ UNCHANGED <<emitted, deleteVars, otherVars>>

\* metadata with content_length == 0: object_repository.upload(.., Some(0), empty body)
HandlerZeroLength ==
    /\ hpc = "start"
    /\ \E cl \in 0..MaxContentLength :
        /\ IsZeroLength(cl)
        /\ content_length' = cl
    /\ calls' = Append(calls, Call("PutObject", "", 0, <<>>, <<>>))
    /\ hpc' = "put_wait"
    /\ UNCHANGED <<clientVars, forwardVars, chunk_q, upc, orchVars,
                   progress_q, progressVars, outVars>>
    /\ UNCHANGED <<emitted, deleteVars, otherVars>>

\* the client puts a chunk message of n bytes on the request stream while the
\* zero-length path runs: the handler never reads the stream again
ClientChunkUnread ==
    /\ hpc = "put_wait"
    /\ msgs < MaxMsgs
    /\ \E n \in 1..MaxChunk :
        /\ sent + n <= MaxTotal
        /\ sent' = sent + n
    /\ msgs' = msgs + 1
    /\ UNCHANGED <<hpc, content_length, forwardVars, chunk_q, upc, orchVars, calls,
                   progress_q, progressVars, outVars>>
    /\ UNCHANGED <<emitted, deleteVars, otherVars>>

\* PutObject failed: domain_error_to_status, no response stream
HandlerPutFailed ==
    /\ hpc = "put_wait"
    /\ calls' = Respond(calls, "err", <<>>)
    /\ hpc' = "rejected"
    /\ status' = "Failed to upload object"
    /\ UNCHANGED <<content_length, clientVars, forwardVars, chunk_q, upc, orchVars,
                   progress_q, progressVars, response_q, response_rx, delivered>>
    /\ UNCHANGED <<emitted, deleteVars, otherVars>>

\* the single message of the zero-length path's response stream
ZeroLengthResponse == Initiated("folder_upload")

\* PutObject succeeded: the response stream is stream::once(response)
HandlerPutOk ==
    /\ hpc = "put_wait"
    /\ calls' = Respond(calls, "ok", ETagOf(<<>>))
    /\ response_q' = <<ZeroLengthResponse>>
    /\ hpc' = "once"
    /\ UNCHANGED <<content_length, clientVars, forwardVars, chunk_q, upc, orchVars,
                   progress_q, progressVars, response_rx, delivered, status>>
    /\ UNCHANGED <<emitted, deleteVars, otherVars>>

\* metadata with content_length != 0: the channels are created and the three tasks spawned
HandlerSpawn ==
    /\ hpc = "start"
    /\ \E cl \in 0..MaxContentLength :
        /\ ~IsZeroLength(cl)
        /\ content_length' = cl
    /\ hpc' = "streaming"
    /\ fpc' = "next"
    /\ ppc' = "recv"
    /\ upc' = "create"
    /\ UNCHANGED <<clientVars, fitem, chunk_q, orchVars, calls, progress_q, pitem, outVars>>
    /\ UNCHANGED <<emitted, deleteVars, otherVars>>

\* ------------------------------------------------------------ chunk forwarding task
\* stream.next() yields a chunk message of n bytes
FwdChunk ==
    /\ fpc = "next"
    /\ msgs < MaxMsgs
    /\ \E n \in 0..MaxChunk :
        /\ sent + n <= MaxTotal
        /\ fitem' = OkItem(Bytes(sent, n))
        /\ sent' = sent + n
    /\ msgs' = msgs + 1
    /\ fpc' = "send"
    /\ UNCHANGED <<hpc, content_length, chunk_q, upc, orchVars, calls, progress_q,
                   progressVars, outVars>>
    /\ UNCHANGED <<emitted, deleteVars, otherVars>>

\* stream.next() yields a message without data: continue
FwdNoData ==
    /\ fpc = "next"
    /\ msgs < MaxMsgs
    /\ msgs' = msgs + 1
    /\ UNCHANGED <<hpc, content_length, sent, forwardVars, chunk_q, upc, orchVars, calls,
                   progress_q, progressVars, outVars>>
    /\ UNCHANGED <<emitted, deleteVars, otherVars>>

\* stream.next() yields a second metadata message
FwdMetadata ==
    /\ fpc = "next"
    /\ msgs < MaxMsgs
    /\ msgs' = msgs + 1
    /\ fitem' = ErrItem("Unexpected metadata")
    /\ fpc' = "send_err"
    /\ UNCHANGED <<hpc, content_length, sent, chunk_q, upc, orchVars, calls, progress_q,
                   progressVars, outVars>>
    /\ UNCHANGED <<emitted, deleteVars, otherVars>>

\* stream.next() yields Err(status)
FwdStreamError ==
    /\ fpc = "next"
    /\ fitem' = ErrItem("Stream error")
    /\ fpc' = "send_err"
    /\ UNCHANGED <<hpc, content_length, clientVars, chunk_q, upc, orchVars, calls,
                   progress_q, progressVars, outVars>>
    /\ UNCHANGED <<emitted, deleteVars, otherVars>>

\* stream.next() yields None, the client's end-of-stream: the task ends, chunk_tx is dropped
FwdEndOfStream ==
    /\ fpc = "next"
    /\ fpc' = "done"
    /\ UNCHANGED <<hpc, content_length, clientVars, fitem, chunk_q, upc, orchVars, calls,
                   progress_q, progressVars, outVars>>
    /\ UNCHANGED <<emitted, deleteVars, otherVars>>

\* chunk_tx.send(Ok(chunk)).await: Err when the receiver is gone (break), waits while full
FwdSend ==
    /\ fpc = "send"
    /\ IF ~ChunkRxAlive
          THEN fpc' = "done" /\ UNCHANGED chunk_q
          ELSE /\ Len(chunk_q) < ChunkCap
               /\ chunk_q' = Append(chunk_q, fitem)
               /\ fpc' = "next"
    /\ UNCHANGED <<hpc, content_length, clientVars, fitem, upc, orchVars, calls,
                   progress_q, progressVars, outVars>>
    /\ UNCHANGED <<emitted, deleteVars, otherVars>>

\* let _ = chunk_tx.send(Err(..)).await; break
FwdSendErr ==
    /\ fpc = "send_err"
    /\ IF ~ChunkRxAlive
          THEN UNCHANGED chunk_q
          ELSE /\ Len(chunk_q) < ChunkCap
               /\ chunk_q' = Append(chunk_q, fitem)
    /\ fpc' = "done"
    /\ UNCHANGED <<hpc, content_length, clientVars, fitem, upc, orchVars, calls,
                   progress_q, progressVars, outVars>>
    /\ UNCHANGED <<emitted, deleteVars, otherVars>>

\* the spawned task is cancelled at one of its await points: chunk_tx is dropped
\* although the client's stream has not ended and no Err item was sent
FwdCancelled ==
    /\ fpc \in {"next", "send", "send_err"}
    /\ fpc' = "cancelled"
    /\ UNCHANGED <<hpc, content_length, clientVars, fitem, chunk_q, upc, orchVars, calls,
                   progress_q, progressVars, outVars>>
    /\ UNCHANGED <<emitted, deleteVars, otherVars>>

\* ------------------------------------------------------------ upload_object_multipart
\* upload_object_multipart returns r: chunk_receiver and progress_sender are dropped
Return(r) ==
    /\ result' = r
    /\ upc' = "send_result"

OkResult(size, etag) == [kind |-> "Ok", size |-> size, etag |-> etag, msg |-> ""]
ErrResult(kind, msg) == [kind |-> kind, size |-> 0, etag |-> <<>>, msg |-> msg]

\* a send that waits for capacity even when the receiver is gone
SendProgressWaiting(ev) ==
    /\ Len(progress_q) < ProgressCap
    /\ progress_q' = Append(progress_q, ev)
    /\ emitted' = Append(emitted, ev)
\* sender.send(event).await on the progress channel with the result ignored:
\* Err at once when the receiver is gone, otherwise waits for capacity
SendProgress(ev) ==
    IF ~ProgressRxAlive
       THEN UNCHANGED <<progress_q, emitted>>
       ELSE /\ Len(progress_q) < ProgressCap
            /\ progress_q' = Append(progress_q, ev)
            /\ emitted' = Append(emitted, ev)

\* while buffer.len() >= part_size
PartReady(buf) == Len(buf) >= PartSize

\* a part loop that builds the next upload_part() while one is still in flight
AtPartLoopOrWaiting == upc \in {"part_loop", "part_wait"}
\* the next upload_part() is built only at the head of the inner loop, that is
\* after the previous upload_part().send().await and the progress send returned
AtPartLoop == upc = "part_loop"

\* a part number that is not advanced
SamePartNumber(n) == n
\* part_number += 1
NextPartNumber(n) == n + 1

\* CompletedPart::builder().part_number(n).e_tag(etag).build()
CompletedPart(n, e) == [part_number |-> n, e_tag |-> e]

\* the ETag the store returns for a completed multipart object: the digest of
\* the listed parts' ETags in list order
RECURSIVE ObjectETag(_)
ObjectETag(parts) ==
    IF parts = <<>> THEN <<>>
    ELSE ETagOf(parts[1].e_tag \o ObjectETag(Tail(parts)))

\* Step 1: create_multipart_upload().send()
OrchCreate ==
    /\ upc = "create"
    /\ calls' = Append(calls, Call("CreateMultipartUpload", "", 0, <<>>, <<>>))
    /\ upc' = "create_wait"
    /\ UNCHANGED <<hpc, content_length, clientVars, forwardVars, chunk_q, orchVars,
                   progress_q, progressVars, outVars>>
    /\ UNCHANGED <<emitted, deleteVars, otherVars>>

\* CreateMultipartUpload failed: the error is returned
OrchCreateFailed ==
    /\ upc = "create_wait"
    /\ calls' = Respond(calls, "err", <<>>)
    /\ Return(ErrResult("CreateFailed", ""))
    /\ UNCHANGED <<hpc, content_length, clientVars, forwardVars, chunk_q, upload_id,
                   part_number, buffer, part_data, total_size, completed_parts,
                   chunk_err, received, progress_q, progressVars, outVars>>
    /\ UNCHANGED <<emitted, deleteVars, otherVars>>

\* an orchestrator that goes on without an upload id
OrchCreateNoIdProceeds ==
    /\ upc = "create_wait"
    /\ calls' = Respond(calls, "ok", <<>>)
    /\ upc' = "send_init"
    /\ UNCHANGED <<hpc, content_length, clientVars, forwardVars, chunk_q, upload_id,
                   part_number, buffer, part_data, total_size, completed_parts,
                   chunk_err, result, received, progress_q, progressVars, outVars>>
    /\ UNCHANGED <<emitted, deleteVars, otherVars>>

\* the response carries no upload id: "No upload ID returned"
OrchCreateNoId ==
    /\ upc = "create_wait"
    /\ calls' = Respond(calls, "ok", <<>>)
    /\ Return(ErrResult("NoUploadId", ""))
    /\ UNCHANGED <<hpc, content_length, clientVars, forwardVars, chunk_q, upload_id,
                   part_number, buffer, part_data, total_size, completed_parts,
                   chunk_err, received, progress_q, progressVars, outVars>>
    /\ UNCHANGED <<emitted, deleteVars, otherVars>>

\* CreateMultipartUpload succeeded with an upload id
OrchCreateOk ==
    /\ upc = "create_wait"
    /\ \E uid \in UploadIds :
        /\ calls' = RespondId(calls, uid)
        /\ upload_id' = uid
    /\ upc' = "send_init"
    /\ UNCHANGED <<hpc, content_length, clientVars, forwardVars, chunk_q,
                   part_number, buffer, part_data, total_size, completed_parts,
                   chunk_err, result, received, progress_q, progressVars, outVars>>
    /\ UNCHANGED <<emitted, deleteVars, otherVars>>

\* sender.send(UploadProgress::Initiated {..}).await
OrchSendInitiated ==
    /\ upc = "send_init"
    /\ SendProgress(Initiated(upload_id))
    /\ upc' = "recv"
    /\ UNCHANGED <<hpc, content_length, clientVars, forwardVars, chunk_q, orchVars,
                   calls, progressVars, outVars>>
    /\ UNCHANGED <<deleteVars, otherVars>>

\* chunk_receiver.recv() yields Some(Ok(bytes)): extend the buffer, add to total_size
OrchRecvChunk ==
    /\ upc = "recv"
    /\ chunk_q # <<>>
    /\ Head(chunk_q).ok
    /\ chunk_q' = Tail(chunk_q)
    /\ buffer' = buffer \o Head(chunk_q).data
    /\ total_size' = total_size + Len(Head(chunk_q).data)
    /\ received' = received \o Head(chunk_q).data
    /\ upc' = "part_loop"
    /\ UNCHANGED <<hpc, content_length, clientVars, forwardVars, upload_id, part_number,
                   part_data, completed_parts, chunk_err, result, calls, progress_q,
                   progressVars, outVars>>
    /\ UNCHANGED <<emitted, deleteVars, otherVars>>

\* a chunk error returned at once, the multipart session left open
OrchRecvErrorNoAbort ==
    /\ upc = "recv"
    /\ chunk_q # <<>>
    /\ ~Head(chunk_q).ok
    /\ chunk_q' = Tail(chunk_q)
    /\ chunk_err' = Head(chunk_q).err
    /\ Return(ErrResult("ChunkError", Head(chunk_q).err))
    /\ UNCHANGED <<hpc, content_length, clientVars, forwardVars, upload_id, part_number,
                   buffer, part_data, total_size, completed_parts, received, calls,
                   progress_q, progressVars, outVars>>
    /\ UNCHANGED <<emitted, deleteVars, otherVars>>

\* chunk_receiver.recv() yields Some(Err(e)): abort_multipart_upload().send()
OrchRecvError ==
    /\ upc = "recv"
    /\ chunk_q # <<>>
    /\ ~Head(chunk_q).ok
    /\ chunk_q' = Tail(chunk_q)
    /\ chunk_err' = Head(chunk_q).err
    /\ calls' = Append(calls, Call("AbortMultipartUpload", upload_id, 0, <<>>, <<>>))
    /\ upc' = "abort_wait"
    /\ UNCHANGED <<hpc, content_length, clientVars, forwardVars, upload_id, part_number,
                   buffer, part_data, total_size, completed_parts, result, received,
                   progress_q, progressVars, outVars>>
    /\ UNCHANGED <<emitted, deleteVars, otherVars>>

\* the abort call answers, its outcome is dropped (let _ =); the chunk error is returned
OrchAbortDone ==
    /\ upc = "abort_wait"
    /\ \E r \in {"ok", "err"} : calls' = Respond(calls, r, <<>>)
    /\ Return(ErrResult("ChunkError", chunk_err))
    /\ UNCHANGED <<hpc, content_length, clientVars, forwardVars, chunk_q, upload_id,
                   part_number, buffer, part_data, total_size, completed_parts,
                   chunk_err, received, progress_q, progressVars, outVars>>
    /\ UNCHANGED <<emitted, deleteVars, otherVars>>

\* chunk_receiver.recv() yields None: every sender dropped and the channel is empty
OrchRecvClosed ==
    /\ upc = "recv"
    /\ chunk_q = <<>>
    /\ ~ChunkTxAlive
    /\ upc' = "final"
    /\ UNCHANGED <<hpc, content_length, clientVars, forwardVars, chunk_q, orchVars,
                   calls, progress_q, progressVars, outVars>>
    /\ UNCHANGED <<emitted, deleteVars, otherVars>>

\* inner loop body: drain part_size bytes and upload them as part part_number
OrchUploadPart ==
    /\ AtPartLoop
    /\ PartReady(buffer)
    /\ part_data' = Take(buffer, PartSize)
    /\ buffer' = Drop(buffer, PartSize)
    /\ calls' = Append(calls, Call("UploadPart", upload_id, part_number,
                                   Take(buffer, PartSize), <<>>))
    /\ upc' = "part_wait"
    /\ UNCHANGED <<hpc, content_length, clientVars, forwardVars, chunk_q, upload_id,
                   part_number, total_size, completed_parts, chunk_err, result,
                   received, progress_q, progressVars, outVars>>
    /\ UNCHANGED <<emitted, deleteVars, otherVars>>

\* inner loop exit: less than part_size bytes buffered, back to recv()
OrchPartLoopExit ==
    /\ upc = "part_loop"
    /\ ~PartReady(buffer)
    /\ upc' = "recv"
    /\ UNCHANGED <<hpc, content_length, clientVars, forwardVars, chunk_q, orchVars,
                   calls, progress_q, progressVars, outVars>>
    /\ UNCHANGED <<emitted, deleteVars, otherVars>>

\* upload_part().send() failed, in the loop or for the final part: map_err(..)?
OrchPartFailed ==
    /\ upc \in {"part_wait", "final_wait"}
    /\ calls' = Respond(calls, "err", <<>>)
    /\ part_data' = <<>>
    /\ Return(ErrResult("PartFailed", ""))
    /\ UNCHANGED <<hpc, content_length, clientVars, forwardVars, chunk_q, upload_id,
                   part_number, buffer, total_size, completed_parts, chunk_err,
                   received, progress_q, progressVars, outVars>>
    /\ UNCHANGED <<emitted, deleteVars, otherVars>>

\* upload_part().send() succeeded: record the part with its etag
OrchPartOk ==
    /\ upc \in {"part_wait", "final_wait"}
    /\ calls' = Respond(calls, "ok", ETagOf(part_data))
    /\ completed_parts' = Append(completed_parts,
                                 CompletedPart(part_number, ETagOf(part_data)))
    /\ part_data' = <<>>
    /\ upc' = IF upc = "part_wait" THEN "send_progress" ELSE "send_final"
    /\ UNCHANGED <<hpc, content_length, clientVars, forwardVars, chunk_q, upload_id,
                   part_number, buffer, total_size, chunk_err, result, received,
                   progress_q, progressVars, outVars>>
    /\ UNCHANGED <<emitted, deleteVars, otherVars>>

\* a progress send that gives the event up when the channel has no capacity
OrchTrySendProgress ==
    /\ upc = "send_progress"
    /\ IF ProgressRxAlive /\ Len(progress_q) < ProgressCap
          THEN SendProgress(PartUploaded(part_number, total_size, content_length))
          ELSE UNCHANGED <<progress_q, emitted>>
    /\ part_number' = NextPartNumber(part_number)
    /\ upc' = "part_loop"
    /\ UNCHANGED <<hpc, content_length, clientVars, forwardVars, chunk_q, upload_id,
                   buffer, part_data, total_size, completed_parts, chunk_err, result,
                   received, calls, progressVars, outVars>>
    /\ UNCHANGED <<deleteVars, otherVars>>

\* sender.send(UploadProgress::PartUploaded {..}).await; part_number += 1
OrchSendProgress ==
    /\ upc = "send_progress"
    /\ SendProgress(PartUploaded(part_number, total_size, content_length))
    /\ part_number' = NextPartNumber(part_number)
    /\ upc' = "part_loop"
    /\ UNCHANGED <<hpc, content_length, clientVars, forwardVars, chunk_q, upload_id,
                   buffer, part_data, total_size, completed_parts, chunk_err, result,
                   received, calls, progressVars, outVars>>
    /\ UNCHANGED <<deleteVars, otherVars>>

\* if !buffer.is_empty(): upload the remaining data as the final part
OrchFinalPart ==
    /\ upc = "final"
    /\ buffer # <<>>
    /\ part_data' = buffer
    /\ buffer' = <<>>
    /\ calls' = Append(calls, Call("UploadPart", upload_id, part_number, buffer, <<>>))
    /\ upc' = "final_wait"
    /\ UNCHANGED <<hpc, content_length, clientVars, forwardVars, chunk_q, upload_id,
                   part_number, total_size, completed_parts, chunk_err, result,
                   received, progress_q, progressVars, outVars>>
    /\ UNCHANGED <<emitted, deleteVars, otherVars>>

\* the final progress update
OrchSendFinalProgress ==
    /\ upc = "send_final"
    /\ SendProgress(PartUploaded(part_number, total_size, content_length))
    /\ upc' = "complete"
    /\ UNCHANGED <<hpc, content_length, clientVars, forwardVars, chunk_q, orchVars,
                   calls, progressVars, outVars>>
    /\ UNCHANGED <<deleteVars, otherVars>>

\* Step 3: complete_multipart_upload() with completed_parts
OrchComplete ==
    /\ \/ upc = "complete"
       \/ upc = "final" /\ buffer = <<>>
    /\ calls' = Append(calls, Call("CompleteMultipartUpload", upload_id, 0, <<>>,
                                   completed_parts))
    /\ upc' = "complete_wait"
    /\ UNCHANGED <<hpc, content_length, clientVars, forwardVars, chunk_q, orchVars,
                   progress_q, progressVars, outVars>>
    /\ UNCHANGED <<emitted, deleteVars, otherVars>>

\* complete_multipart_upload().send() failed: map_err(..)?
OrchCompleteFailed ==
    /\ upc = "complete_wait"
    /\ calls' = Respond(calls, "err", <<>>)
    /\ Return(ErrResult("CompleteFailed", ""))
    /\ UNCHANGED <<hpc, content_length, clientVars, forwardVars, chunk_q, upload_id,
                   part_number, buffer, part_data, total_size, completed_parts,
                   chunk_err, received, progress_q, progressVars, outVars>>
    /\ UNCHANGED <<emitted, deleteVars, otherVars>>

\* complete_multipart_upload().send() succeeded: Ok(UploadResult {.., size: total_size})
OrchCompleteOk ==
    /\ upc = "complete_wait"
    /\ calls' = Respond(calls, "ok", ObjectETag(completed_parts))
    /\ Return(OkResult(total_size, ObjectETag(completed_parts)))
    /\ UNCHANGED <<hpc, content_length, clientVars, forwardVars, chunk_q, upload_id,
                   part_number, buffer, part_data, total_size, completed_parts,
                   chunk_err, received, progress_q, progressVars, outVars>>
    /\ UNCHANGED <<emitted, deleteVars, otherVars>>

\* ------------------------------------------------------------ upload task, final message
\* the response built from the result of upload_multipart
FinalResponse(r) == IF r.kind = "Ok" THEN ResultMsg(r.size, r.etag) ELSE ErrorMsg

\* let _ = response_tx_final.send(response).await
UploadTaskSendResult ==
    /\ upc = "send_result"
    /\ IF ~response_rx
          THEN UNCHANGED response_q
          ELSE /\ Len(response_q) < ResponseCap
               /\ response_q' = Append(response_q, FinalResponse(result))
    /\ upc' = "done"
    /\ UNCHANGED <<hpc, content_length, clientVars, forwardVars, chunk_q, orchVars,
                   calls, progress_q, progressVars, response_rx, delivered, status>>
    /\ UNCHANGED <<emitted, deleteVars, otherVars>>

\* ------------------------------------------------------------ progress forwarding task
\* progress_rx.recv() yields an event: build the response message for it
ProgressRecv ==
    /\ ppc = "recv"
    /\ progress_q # <<>>
    /\ pitem' = Head(progress_q)
    /\ progress_q' = Tail(progress_q)
    /\ ppc' = "send"
    /\ UNCHANGED <<hpc, content_length, clientVars, forwardVars, chunk_q, upc, orchVars,
                   calls, outVars>>
    /\ UNCHANGED <<emitted, deleteVars, otherVars>>

\* progress_rx.recv() yields None: progress_tx dropped and the channel is empty
ProgressClosed ==
    /\ ppc = "recv"
    /\ progress_q = <<>>
    /\ ~ProgressTxAlive
    /\ ppc' = "done"
    /\ UNCHANGED <<hpc, content_length, clientVars, forwardVars, chunk_q, upc, orchVars,
                   calls, progress_q, pitem, outVars>>
    /\ UNCHANGED <<emitted, deleteVars, otherVars>>

\* response_tx_progress.send(Ok(response)).await; break when the client is gone
ProgressSend ==
    /\ ppc = "send"
    /\ IF ~response_rx
          THEN ppc' = "done" /\ UNCHANGED response_q
          ELSE /\ Len(response_q) < ResponseCap
               /\ response_q' = Append(response_q, pitem)
               /\ ppc' = "recv"
    /\ UNCHANGED <<hpc, content_length, clientVars, forwardVars, chunk_q, upc, orchVars,
                   calls, progress_q, pitem, response_rx, delivered, status>>
    /\ UNCHANGED <<emitted, deleteVars, otherVars>>

\* ------------------------------------------------------------ client
\* the client polls the response stream and gets the next message; an
\* Err(Status) item ends the response, and the stream is dropped after it
ClientRead ==
    /\ response_rx
    /\ response_q # <<>>
    /\ delivered' = Append(delivered, Head(response_q))
    /\ response_q' = Tail(response_q)
    /\ response_rx' = (Head(response_q).type # "Error")
    /\ UNCHANGED <<hpc, content_length, clientVars, forwardVars, chunk_q, upc, orchVars,
                   calls, progress_q, progressVars, status>>
    /\ UNCHANGED <<emitted, deleteVars, otherVars>>

\* the client drops the response stream
ClientDrop ==
    /\ hpc \in {"streaming", "once"}
    /\ response_rx
    /\ response_rx' = FALSE
    /\ UNCHANGED <<hpc, content_length, clientVars, forwardVars, chunk_q, upc, orchVars,
                   calls, progress_q, progressVars, response_q, delivered, status>>
    /\ UNCHANGED <<emitted, deleteVars, otherVars>>

\* ------------------------------------------------------------ specification
Next ==
    \/ HandlerEmptyStream \/ HandlerStreamError \/ HandlerNotMetadata
    \/ HandlerZeroLength \/ ClientChunkUnread \/ HandlerPutFailed \/ HandlerPutOk \/ HandlerSpawn
    \/ FwdChunk \/ FwdNoData \/ FwdMetadata \/ FwdStreamError \/ FwdEndOfStream
    \/ FwdSend \/ FwdSendErr \/ FwdCancelled
    \/ OrchCreate \/ OrchCreateFailed \/ OrchCreateNoId \/ OrchCreateOk
    \/ OrchSendInitiated \/ OrchRecvChunk \/ OrchRecvError \/ OrchAbortDone
    \/ OrchRecvClosed \/ OrchUploadPart \/ OrchPartLoopExit \/ OrchPartFailed
    \/ OrchPartOk \/ OrchSendProgress \/ OrchFinalPart \/ OrchSendFinalProgress
    \/ OrchComplete \/ OrchCompleteFailed \/ OrchCompleteOk
    \/ UploadTaskSendResult
    \/ ProgressRecv \/ ProgressClosed \/ ProgressSend
    \/ ClientRead \/ ClientDrop

Spec == Init /\ [][Next]_vars

\* the steps of the handler and the chunk forwarding task, with the request
\* stream they read; the stream ends, so the forwarding task is not cancelled
\* before it
HandlerSteps ==
    \/ HandlerEmptyStream \/ HandlerStreamError \/ HandlerNotMetadata
    \/ HandlerZeroLength \/ ClientChunkUnread \/ HandlerPutFailed \/ HandlerPutOk \/ HandlerSpawn
    \/ FwdChunk \/ FwdNoData \/ FwdMetadata \/ FwdStreamError \/ FwdEndOfStream
    \/ FwdSend \/ FwdSendErr
\* the steps of the upload task, with the store's answers
UploadTaskSteps ==
    \/ OrchCreate \/ OrchCreateFailed \/ OrchCreateNoId \/ OrchCreateOk
    \/ OrchSendInitiated \/ OrchRecvChunk \/ OrchRecvError \/ OrchAbortDone
    \/ OrchRecvClosed \/ OrchUploadPart \/ OrchPartLoopExit \/ OrchPartFailed
    \/ OrchPartOk \/ OrchSendProgress \/ OrchFinalPart \/ OrchSendFinalProgress
    \/ OrchComplete \/ OrchCompleteFailed \/ OrchCompleteOk
    \/ UploadTaskSendResult
\* the steps of the progress forwarding task
ProgressTaskSteps == ProgressRecv \/ ProgressClosed \/ ProgressSend

\* an upload whose request stream ends and whose client never drops the
\* response stream
ReadingNext == HandlerSteps \/ UploadTaskSteps \/ ProgressTaskSteps \/ ClientRead

\* the runtime keeps polling the spawned tasks, the request stream yields its
\* next item or its end, the store answers every call, and the client keeps
\* reading the response stream
SpecReading ==
    /\ Init
    /\ [][ReadingNext]_vars
    /\ WF_vars(HandlerSteps)
    /\ WF_vars(UploadTaskSteps)
    /\ WF_vars(ProgressTaskSteps)
    /\ WF_vars(ClientRead)

\* ------------------------------------------------------------ the store's listing and delete
\* ListObjectsV2 on the bucket: the first max keys with the prefix that sort
\* after the continuation token, is_truncated when more remain, and then the
\* last key returned as the next token
ListPage(b, prefix, token, max) ==
    LET matching == SortedSeq({k \in b : HasPrefix(k, prefix) /\ k > token})
        n == IF Len(matching) < max THEN Len(matching) ELSE max
        truncated == Len(matching) > max
    IN [objects |-> SubSeq(matching, 1, n),
        is_truncated |-> truncated,
        next_continuation_token |-> IF truncated THEN matching[n] ELSE NoToken]

\* a ListObjectsV2 response against the contract: the page of ListPage with
\* is_truncated set and no next_continuation_token
ListPageNoToken(b, prefix, token, max) ==
    [ListPage(b, prefix, token, max) EXCEPT !.next_continuation_token = NoToken]

\* a listing or batch-delete call as it is issued: no response yet
DCall(op, prefix, token, keys) ==
    [op |-> op, prefix |-> prefix, token |-> token, keys |-> keys,
     resp |-> "pending", objects |-> <<>>, is_truncated |-> FALSE,
     next_continuation_token |-> NoToken, deleted |-> <<>>, errors |-> <<>>]

\* the call issued last failed as a whole
DFail(cs) == [cs EXCEPT ![Len(cs)] = [@ EXCEPT !.resp = "err"]]
\* the listing issued last returned a page
DListed(cs, page) ==
    [cs EXCEPT ![Len(cs)] = [@ EXCEPT !.resp = "ok", !.objects = page.objects,
                                      !.is_truncated = page.is_truncated,
                                      !.next_continuation_token =
                                          page.next_continuation_token]]
\* response.deleted() of a DeleteObjects whose keys in bad could not be deleted
DeletedOf(keys, bad) == SelectSeq(keys, LAMBDA k : k \notin bad)
\* response.errors() of that call
ErrorsOf(keys, bad) == SelectSeq(keys, LAMBDA k : k \in bad)
\* the batch delete issued last was answered
DDeleted(cs, bad) ==
    [cs EXCEPT ![Len(cs)] = [@ EXCEPT !.resp = "ok",
                                      !.deleted = DeletedOf(cs[Len(cs)].keys, bad),
                                      !.errors = ErrorsOf(cs[Len(cs)].keys, bad)]]

\* Ok(DeleteObjectsResult {deleted, errors})
OkOutcome(d, e) == [kind |-> "Ok", deleted |-> d, errors |-> e]
\* Err(DomainError) of a failed listing or batch delete
ErrOutcome(kind) == [kind |-> kind, deleted |-> <<>>, errors |-> <<>>]

\* an accumulator that keeps only the last page
KeepLast(acc, page) == page
\* Vec::extend
Extend(acc, page) == acc \o page

\* a batch that leaves out the first key of the page
KeysButFirst(res) == Tail(res.objects)
\* let keys = list_result.objects.iter().map(|o| o.key.clone()).collect()
KeysOf(res) == res.objects

\* a loop that lists from the start again
RestartToken(res) == NoToken
\* continuation_token = list_result.next_continuation_token
AdvanceToken(res) == res.next_continuation_token

deleteLocals == <<continuation_token, list_result, all_deleted, all_errors>>
handlerLocals == <<cmd_keys, folder_keys, object_keys, handler_deleted, handler_errors>>

\* ------------------------------------------------------------ DeleteObjectsHandler::handle
\* partition the keys into folder_keys (ending in '/') and object_keys
HandlePartition ==
    /\ dpc = "start"
    /\ folder_keys' = SelectSeq(cmd_keys, EndsWithSlash)
    /\ object_keys' = SelectSeq(cmd_keys, LAMBDA k : ~EndsWithSlash(k))
    /\ handler_deleted' = <<>>
    /\ handler_errors' = <<>>
    /\ dpc' = "folders"
    /\ UNCHANGED <<cmd_keys, bucket, bucket0, deleteLocals, outcome, dcalls>>
    /\ UNCHANGED <<uploadVars, otherVars>>

\* for folder_key in folder_keys: delete_recursive(&bucket, &folder_key) starts
HandleFolder ==
    /\ dpc = "folders"
    /\ folder_keys # <<>>
    /\ all_deleted' = <<>>
    /\ all_errors' = <<>>
    /\ continuation_token' = NoToken
    /\ dpc' = "list"
    /\ UNCHANGED <<bucket, bucket0, list_result, handlerLocals, outcome, dcalls>>
    /\ UNCHANGED <<uploadVars, otherVars>>

\* self.list_objects(bucket, Some(prefix), continuation_token, Some(MAX_KEYS_PER_REQUEST))
RecList ==
    /\ dpc = "list"
    /\ dcalls' = Append(dcalls, DCall("List", Head(folder_keys), continuation_token, <<>>))
    /\ dpc' = "list_wait"
    /\ UNCHANGED <<bucket, bucket0, deleteLocals, handlerLocals, outcome>>
    /\ UNCHANGED <<uploadVars, otherVars>>

\* a listing failure that is skipped: the loop lists again
RecListFailedRetry ==
    /\ dpc = "list_wait"
    /\ dcalls' = DFail(dcalls)
    /\ dpc' = "list"
    /\ UNCHANGED <<bucket, bucket0, deleteLocals, handlerLocals, outcome>>
    /\ UNCHANGED <<uploadVars, otherVars>>

\* list_objects(..).await? fails: the error is returned by delete_objects_recursive
\* and, through delete_recursive(..).await?, by the handler
RecListFailed ==
    /\ dpc = "list_wait"
    /\ dcalls' = DFail(dcalls)
    /\ outcome' = ErrOutcome("ListFailed")
    /\ dpc' = "done"
    /\ UNCHANGED <<bucket, bucket0, deleteLocals, handlerLocals>>
    /\ UNCHANGED <<uploadVars, otherVars>>

\* list_objects returns the page the store lists for the prefix and token
RecListOk ==
    /\ dpc = "list_wait"
    /\ LET page == ListPage(bucket, dcalls[Len(dcalls)].prefix,
                            dcalls[Len(dcalls)].token, PageSize)
       IN /\ list_result' = page
          /\ dcalls' = DListed(dcalls, page)
    /\ dpc' = "listed"
    /\ UNCHANGED <<bucket, bucket0, continuation_token, all_deleted, all_errors,
                   handlerLocals, outcome>>
    /\ UNCHANGED <<uploadVars, otherVars>>

\* the listing calls so far that were answered with is_truncated set and no
\* next_continuation_token
BadPages ==
    {i \in 1..Len(dcalls) : /\ dcalls[i].op = "List"
                            /\ dcalls[i].resp = "ok"
                            /\ dcalls[i].is_truncated
                            /\ dcalls[i].next_continuation_token = NoToken}

\* list_objects returns a page the store marked truncated without a token:
\* is_truncated = response.is_truncated().unwrap_or(false) is true and
\* next_token = response.next_continuation_token() is None
RecListOkNoToken ==
    /\ dpc = "list_wait"
    /\ Cardinality(BadPages) < MaxBadPages
    /\ LET page == ListPageNoToken(bucket, dcalls[Len(dcalls)].prefix,
                                   dcalls[Len(dcalls)].token, PageSize)
       IN /\ page.is_truncated
          /\ list_result' = page
          /\ dcalls' = DListed(dcalls, page)
    /\ dpc' = "listed"
    /\ UNCHANGED <<bucket, bucket0, continuation_token, all_deleted, all_errors,
                   handlerLocals, outcome>>
    /\ UNCHANGED <<uploadVars, otherVars>>

\* if list_result.objects.is_empty() { break }: delete_objects_recursive returns
RecEmptyPage ==
    /\ dpc = "listed"
    /\ list_result.objects = <<>>
    /\ dpc' = "rec_return"
    /\ UNCHANGED <<bucket, bucket0, deleteLocals, handlerLocals, outcome, dcalls>>
    /\ UNCHANGED <<uploadVars, otherVars>>

\* self.delete_objects(bucket, keys) for the keys of the page
RecDelete ==
    /\ dpc = "listed"
    /\ list_result.objects # <<>>
    /\ dcalls' = Append(dcalls, DCall("Delete", Head(folder_keys), NoToken,
                                      KeysOf(list_result)))
    /\ dpc' = "delete_wait"
    /\ UNCHANGED <<bucket, bucket0, deleteLocals, handlerLocals, outcome>>
    /\ UNCHANGED <<uploadVars, otherVars>>

\* delete_objects(..).await? fails: the error is returned
RecDeleteFailed ==
    /\ dpc = "delete_wait"
    /\ dcalls' = DFail(dcalls)
    /\ outcome' = ErrOutcome("DeleteFailed")
    /\ dpc' = "done"
    /\ UNCHANGED <<bucket, bucket0, deleteLocals, handlerLocals>>
    /\ UNCHANGED <<uploadVars, otherVars>>

\* delete_objects returns: the store removed the keys outside bad and reports
\* the keys in bad as errors; the accumulators are extended, then the loop
\* breaks on !is_truncated or goes on from next_continuation_token
RecDeleteOk ==
    /\ dpc = "delete_wait"
    /\ \E bad \in SUBSET Range(dcalls[Len(dcalls)].keys) :
        /\ bucket' = bucket \ (Range(dcalls[Len(dcalls)].keys) \ bad)
        /\ dcalls' = DDeleted(dcalls, bad)
        /\ all_deleted' = Extend(all_deleted, DeletedOf(dcalls[Len(dcalls)].keys, bad))
        /\ all_errors' = Extend(all_errors, ErrorsOf(dcalls[Len(dcalls)].keys, bad))
    /\ IF ~list_result.is_truncated
          THEN dpc' = "rec_return" /\ UNCHANGED continuation_token
          ELSE dpc' = "list" /\ continuation_token' = AdvanceToken(list_result)
    /\ UNCHANGED <<bucket0, list_result, handlerLocals, outcome>>
    /\ UNCHANGED <<uploadVars, otherVars>>

\* delete_recursive returned Ok: all_deleted.extend(result.deleted);
\* all_errors.extend(result.errors); next folder key
HandleFolderDone ==
    /\ dpc = "rec_return"
    /\ handler_deleted' = Extend(handler_deleted, all_deleted)
    /\ handler_errors' = Extend(handler_errors, all_errors)
    /\ folder_keys' = Tail(folder_keys)
    /\ dpc' = "folders"
    /\ UNCHANGED <<cmd_keys, object_keys, bucket, bucket0, deleteLocals, outcome, dcalls>>
    /\ UNCHANGED <<uploadVars, otherVars>>

\* if !object_keys.is_empty(): delete_batch(&bucket, object_keys)
HandleBatch ==
    /\ dpc = "folders"
    /\ folder_keys = <<>>
    /\ object_keys # <<>>
    /\ dcalls' = Append(dcalls, DCall("Delete", NoToken, NoToken, object_keys))
    /\ dpc' = "batch_wait"
    /\ UNCHANGED <<bucket, bucket0, deleteLocals, handlerLocals, outcome>>
    /\ UNCHANGED <<uploadVars, otherVars>>

\* delete_batch(..).await? fails: the handler returns the error
HandleBatchFailed ==
    /\ dpc = "batch_wait"
    /\ dcalls' = DFail(dcalls)
    /\ outcome' = ErrOutcome("DeleteFailed")
    /\ dpc' = "done"
    /\ UNCHANGED <<bucket, bucket0, deleteLocals, handlerLocals>>
    /\ UNCHANGED <<uploadVars, otherVars>>

\* delete_batch returned: the accumulators are extended and the handler
\* returns Ok(DeleteObjectsResult {deleted: all_deleted, errors: all_errors})
HandleBatchOk ==
    /\ dpc = "batch_wait"
    /\ \E bad \in SUBSET Range(object_keys) :
        /\ bucket' = bucket \ (Range(object_keys) \ bad)
        /\ dcalls' = DDeleted(dcalls, bad)
        /\ handler_deleted' = Extend(handler_deleted, DeletedOf(object_keys, bad))
        /\ handler_errors' = Extend(handler_errors, ErrorsOf(object_keys, bad))
        /\ outcome' = OkOutcome(Extend(handler_deleted, DeletedOf(object_keys, bad)),
                                Extend(handler_errors, ErrorsOf(object_keys, bad)))
    /\ dpc' = "done"
    /\ UNCHANGED <<bucket0, deleteLocals, cmd_keys, folder_keys, object_keys>>
    /\ UNCHANGED <<uploadVars, otherVars>>

\* object_keys is empty: the handler returns what the recursive deletes gave
HandleNoBatch ==
    /\ dpc = "folders"
    /\ folder_keys = <<>>
    /\ object_keys = <<>>
    /\ outcome' = OkOutcome(handler_deleted, handler_errors)
    /\ dpc' = "done"
    /\ UNCHANGED <<bucket, bucket0, deleteLocals, handlerLocals, dcalls>>
    /\ UNCHANGED <<uploadVars, otherVars>>

\* ------------------------------------------------------------ specification of the delete path
\* the keys a command may name: the folder, one object under it, one outside it
CommandKeys == {FolderKey, 1, OtherKey}
\* DeleteObjectsCommand::new accepts any non-empty list of non-empty keys
Commands ==
    UNION {[1..n -> CommandKeys] : n \in 1..MaxCmdKeys}

\* a delete command arrives for a bucket that holds m objects under the
\* folder, the folder marker or not, and the object outside the folder
DeleteInit ==
    /\ UploadInit
    /\ dpc = "start"
    /\ \E m \in 0..MaxKeys, marker \in BOOLEAN :
        bucket = (1..m) \cup (IF marker THEN {FolderKey} ELSE {}) \cup {OtherKey}
    /\ bucket0 = bucket
    /\ DeleteIdle
    /\ \E c \in Commands : cmd_keys = c
    /\ gpc = "idle"
    /\ DownloadIdle
    /\ BucketIdle

DeleteNext ==
    \/ HandlePartition \/ HandleFolder
    \/ RecList \/ RecListFailed \/ RecListOk \/ RecEmptyPage
    \/ RecDelete \/ RecDeleteFailed \/ RecDeleteOk
    \/ HandleFolderDone \/ HandleBatch \/ HandleBatchFailed \/ HandleBatchOk
    \/ HandleNoBatch

\* the handler is an async task the runtime keeps polling, and the store
\* answers every call
SpecDelete == DeleteInit /\ [][DeleteNext]_vars /\ WF_vars(DeleteNext)

\* the same handler against a store whose listing may break the contract
\* is_truncated == next_continuation_token.is_some()
DeleteAnyStoreNext == DeleteNext \/ RecListOkNoToken

SpecDeleteAnyStore == DeleteInit /\ [][DeleteAnyStoreNext]_vars /\ WF_vars(DeleteAnyStoreNext)

\* ------------------------------------------------------------ observations
\* upload_object_multipart has returned
Returned == result.kind # "none"

\* the calls with operation op, in the order they were issued
CallsSeq(op) == SelectSeq(calls, LAMBDA c : c.op = op)

\* some call with operation op was answered with an error
Failed(op) == \E i \in CallsOf(op) : calls[i].resp = "err"

\* an AbortMultipartUpload call for the session's upload id was issued
AbortIssued ==
    \E i \in CallsOf("AbortMultipartUpload") : calls[i].uid = upload_id

\* ------------------------------------------------------------ C1
\* C1: once the chunk source has yielded an error to upload_object_multipart
\* (after any number of uploaded parts), the last store call issued is the
\* AbortMultipartUpload for the session's upload id, so no UploadPart and no
\* CompleteMultipartUpload follows it, no CompleteMultipartUpload was issued
\* at all, and when the operation returns it returns that chunk error, whether
\* the abort call succeeded or failed.
C1_ChunkErrorAborts ==
    chunk_err # "" =>
        /\ calls # <<>>
        /\ calls[Len(calls)].op = "AbortMultipartUpload"
        /\ calls[Len(calls)].uid = upload_id
        /\ upload_id \in UploadIds
        /\ CallsOf("CompleteMultipartUpload") = {}
        /\ Len(CallsSeq("UploadPart")) = Len(completed_parts)
        /\ Returned => result = ErrResult("ChunkError", fitem.err)

\* a chunk error after one uploaded part, the abort call itself failed
C1_Witness ==
    /\ chunk_err # ""
    /\ Returned
    /\ Len(completed_parts) >= 1
    /\ calls[Len(calls)].resp = "err"

\* ------------------------------------------------------------ C2
\* C2: when an UploadPart call has failed and upload_object_multipart has
\* returned, an AbortMultipartUpload for the upload id has been issued.
C2_PartFailureAborts ==
    (Returned /\ Failed("UploadPart")) => AbortIssued

\* ------------------------------------------------------------ C3
\* C3: when the client's stream ended normally, the CompleteMultipartUpload
\* call has failed and upload_object_multipart has returned, an
\* AbortMultipartUpload for the upload id has been issued, so the session is
\* not left open on the store.
C3_CompleteFailureAborts ==
    (Returned /\ Failed("CompleteMultipartUpload") /\ fpc = "done") => AbortIssued

\* ------------------------------------------------------------ C4
\* C4: when the chunk forwarding task is cancelled, dropping chunk_tx, after
\* the orchestrator received part of the payload and before the client's
\* stream ended, no CompleteMultipartUpload is ever issued for the partially
\* received data, and an upload that returned without a failed store call
\* has issued AbortMultipartUpload.
C4_CancelledSourceAborts ==
    (fpc = "cancelled" /\ received # <<>> /\ Len(received) < sent) =>
        /\ CallsOf("CompleteMultipartUpload") = {}
        /\ (Returned /\ \A i \in 1..Len(calls) : calls[i].resp # "err") => AbortIssued

\* ------------------------------------------------------------ C5
\* C5: when a multipart upload has succeeded, the k UploadPart calls carry the
\* part numbers 1, 2, ..., k in the order they were issued, and the one
\* CompleteMultipartUpload call lists exactly these part numbers in that
\* order, each with the ETag the store returned for that UploadPart call.
C5_PartNumbersContiguous ==
    result.kind = "Ok" =>
        LET up == CallsSeq("UploadPart")
            cp == CallsSeq("CompleteMultipartUpload")
        IN /\ \A i \in 1..Len(up) : up[i].pn = i /\ up[i].resp = "ok"
           /\ Len(cp) = 1
           /\ cp[1].parts = [i \in 1..Len(up) |-> CompletedPart(i, up[i].etag)]

\* a successful upload of three parts
C5_Witness ==
    /\ result.kind = "Ok"
    /\ Len(CallsSeq("UploadPart")) = 3

\* ------------------------------------------------------------ C6
RECURSIVE ConcatBodies(_)
\* the bodies of a sequence of calls, concatenated in order
ConcatBodies(cs) == IF cs = <<>> THEN <<>> ELSE cs[1].body \o ConcatBodies(Tail(cs))

\* the least number of parts of size p that hold n bytes
CeilDiv(n, p) == (n + p - 1) \div p

\* C6: once every part of a chunk sequence of total length N has been uploaded
\* (CompleteMultipartUpload has been issued), the parts number ceil(N/P), every
\* part but the last holds exactly P bytes, the last holds N mod P bytes (P
\* when N is a positive multiple of P), and the parts concatenated in
\* part-number order are the chunks concatenated in arrival order; when the
\* client's stream ended normally these are all the bytes the client sent.
C6_PartsPartitionPayload ==
    CallsOf("CompleteMultipartUpload") # {} =>
        LET up == CallsSeq("UploadPart")
            N == Len(received)
            k == Len(up)
        IN /\ k = CeilDiv(N, PartSize)
           /\ \A i \in 1..k : up[i].pn = i
           /\ \A i \in 1..(k - 1) : Len(up[i].body) = PartSize
           /\ k > 0 => Len(up[k].body) =
                          (IF N % PartSize = 0 THEN PartSize ELSE N % PartSize)
           /\ ConcatBodies(up) = received
           /\ fpc = "done" /\ chunk_err = "" => received = Bytes(0, sent)

\* one chunk of more than two parts' length, uploaded as three parts
C6_Witness ==
    /\ result.kind = "Ok"
    /\ msgs = 1
    /\ Len(received) > 2 * PartSize
    /\ Len(CallsSeq("UploadPart")) = 3
    /\ Len(received) % PartSize # 0

\* ------------------------------------------------------------ C7
\* C7: at most one store call, hence at most one UploadPart, is outstanding at
\* any time; every call but the one issued last has been answered; and the
\* UploadPart calls carry strictly increasing part numbers in issue order.
C7_SequentialPartUploads ==
    /\ Cardinality({i \in Outstanding : calls[i].op = "UploadPart"}) <= 1
    /\ \A i \in CallsOf("UploadPart") : i < Len(calls) => calls[i].resp # "pending"
    /\ LET up == CallsSeq("UploadPart")
       IN \A i \in 1..Len(up) : \A j \in 1..Len(up) : i < j => up[i].pn < up[j].pn

\* the second UploadPart is outstanding, the first has been answered, and
\* another full part is already buffered
C7_Witness ==
    /\ Len(CallsSeq("UploadPart")) = 2
    /\ calls[Len(calls)].op = "UploadPart"
    /\ calls[Len(calls)].resp = "pending"
    /\ upc = "part_wait"
    /\ chunk_q # <<>>

\* ------------------------------------------------------------ C8
\* C8: the assembly buffer never holds more than part_size bytes, and the
\* buffer together with the part in flight never holds more than twice
\* part_size bytes.
C8_BufferBounded ==
    /\ Len(buffer) <= PartSize
    /\ Len(buffer) + Len(part_data) <= 2 * PartSize

\* ------------------------------------------------------------ C9
\* C9: when the declared content_length is zero, the store calls issued are
\* exactly one PutObject with an empty body; no multipart call is issued and
\* the multipart tasks are never started.
C9_ZeroLengthSimpleUpload ==
    content_length = 0 =>
        /\ Len(calls) = 1
        /\ calls[1].op = "PutObject"
        /\ calls[1].body = <<>>
        /\ upc = "idle"
        /\ fpc = "idle"

\* the zero-length upload has succeeded and its response was read
C9_Witness ==
    /\ content_length = 0
    /\ hpc = "once"
    /\ delivered # <<>>

\* ------------------------------------------------------------ C10
\* C10: on the zero-content-length path no message read from the response
\* stream is an Initiated or PartUploaded event.
C10_ZeroLengthOnlyResult ==
    content_length = 0 =>
        \A i \in 1..Len(delivered) :
            delivered[i].type \notin {"Initiated", "PartUploaded"}

\* ------------------------------------------------------------ C11
\* the size upload_object reports: content_length.unwrap_or(0)
SimpleUploadSize(cl) == IF cl < 0 THEN 0 ELSE cl

\* the upload succeeded: PutObject on the zero-length path, or the multipart upload
UploadSucceeded == hpc = "once" \/ result.kind = "Ok"

\* the object the store committed for a successful upload
StoredObject ==
    IF hpc = "once" THEN ConcatBodies(CallsSeq("PutObject"))
                    ELSE ConcatBodies(CallsSeq("UploadPart"))

\* the size of the UploadResult of a successful upload
ReportedSize == IF hpc = "once" THEN SimpleUploadSize(content_length) ELSE result.size

\* C11: content_length is only a hint: whenever an upload whose request stream
\* was read to its end (or never read) succeeds, the committed object is the
\* concatenation of all chunks the client supplied and the reported size is
\* their total length, whatever content_length was declared.
C11_ContentLengthIsHint ==
    (UploadSucceeded /\ fpc # "cancelled") =>
        /\ StoredObject = Bytes(0, sent)
        /\ ReportedSize = sent

\* the same statement for the multipart path alone
C11_MultipartPathOnly ==
    (result.kind = "Ok" /\ fpc # "cancelled") =>
        /\ StoredObject = Bytes(0, sent)
        /\ ReportedSize = sent

\* ------------------------------------------------------------ C12
\* the UploadPart call for part n was answered with success
PartSucceeded(n) ==
    \E j \in CallsOf("UploadPart") : calls[j].pn = n /\ calls[j].resp = "ok"

\* C12: the events on the progress sink are Initiated first, emitted after
\* CreateMultipartUpload succeeded and before any UploadPart is issued, then
\* PartUploaded events numbered 1, 2, ... in order, each emitted only after
\* the UploadPart call of that part succeeded.
C12_ProgressEventOrder ==
    /\ CallsOf("UploadPart") # {} => emitted # <<>>
    /\ emitted # <<>> =>
          /\ emitted[1] = Initiated(upload_id)
          /\ calls[1].op = "CreateMultipartUpload" /\ calls[1].resp = "ok"
    /\ \A i \in 2..Len(emitted) :
          /\ emitted[i].type = "PartUploaded"
          /\ emitted[i].part_number = i - 1
          /\ PartSucceeded(i - 1)

\* Initiated and the events of two parts were emitted
C12_Witness ==
    /\ Len(emitted) >= 3
    /\ emitted[3].type = "PartUploaded"

\* ------------------------------------------------------------ C13
\* the summed size of the parts numbered 1..n that were handed to UploadPart
UploadedThrough(n) ==
    Len(ConcatBodies(SelectSeq(calls, LAMBDA c : c.op = "UploadPart" /\ c.pn <= n)))

\* C13: every PartUploaded event for part n carries in bytes_uploaded the
\* summed size of parts 1..n, whatever the chunk sizes were.
C13_BytesUploadedIsRunningTotal ==
    \A i \in 1..Len(emitted) :
        emitted[i].type = "PartUploaded" =>
            emitted[i].bytes_uploaded = UploadedThrough(emitted[i].part_number)

\* ------------------------------------------------------------ C14
\* the terminal message of the response stream: the UploadResult or the error
IsTerminal(m) == m.type \in {"Result", "Error"}

\* C14: on the response stream the terminal message is the last one: the
\* client reads no progress message after it.
C14_TerminalMessageLast ==
    \A i \in 1..Len(delivered) :
        IsTerminal(delivered[i]) => i = Len(delivered)

\* ------------------------------------------------------------ C15
\* the progress sink is closed: the progress task ended and dropped progress_rx
SinkClosed == hpc = "streaming" /\ ~ProgressRxAlive

\* upload_object_multipart is at one of its three progress sends
AtProgressSend == upc \in {"send_init", "send_progress", "send_final"}

\* every error result has a cause other than the sink
FailureHasCause ==
    result.kind \notin {"none", "Ok"} =>
        \/ chunk_err # ""
        \/ \E i \in 1..Len(calls) : calls[i].resp = "err"
        \/ calls[1].op = "CreateMultipartUpload" /\ calls[1].newid = ""

\* with the sink closed a progress send never waits, nothing is aborted or
\* failed on its account, and a successful upload stores what was received
ClosedSinkHarmless ==
    SinkClosed =>
        /\ upc = "send_init" => ENABLED OrchSendInitiated
        /\ upc = "send_progress" => ENABLED OrchSendProgress
        /\ upc = "send_final" => ENABLED OrchSendFinalProgress
        /\ AbortIssued => chunk_err # ""
        /\ FailureHasCause
        /\ result.kind = "Ok" =>
              /\ ConcatBodies(CallsSeq("UploadPart")) = received
              /\ result.size = Len(received)

\* C15: once the progress sink is closed (the client dropping the response
\* stream makes the progress task drop the receiver), progress emission is a
\* no-op: a send completes at once and changes neither the store calls, the
\* channel, the buffered data nor the result, and the upload is neither
\* aborted nor failed because of it.
C15_ClosedSinkIsNoOp ==
    /\ []ClosedSinkHarmless
    /\ [][(SinkClosed /\ AtProgressSend) =>
             UNCHANGED <<calls, result, progress_q, emitted, buffer, part_data,
                         completed_parts, total_size, upload_id, chunk_err>>]_vars

\* the client dropped the stream, an event was discarded at the closed sink,
\* and the upload still completed with at least one part
C15_Witness ==
    /\ SinkClosed
    /\ ~response_rx
    /\ result.kind = "Ok"
    /\ completed_parts # <<>>
    /\ Len(emitted) < 1 + Len(completed_parts)

\* ------------------------------------------------------------ download_object
\* the DomainError GarageS3Client::download_object returns when GetObject
\* fails: every SdkError is mapped to ObjectNotFound
GetObjectError(cause) == "ObjectNotFound"

\* domain_error_to_status: the gRPC code of a DomainError
StatusOf(e) ==
    CASE e = "ObjectNotFound" -> "NotFound"
      [] e = "BucketNotFound" -> "NotFound"
      [] e = "BucketAlreadyExists" -> "AlreadyExists"
      [] e = "InvalidBucketName" -> "InvalidArgument"
      [] OTHER -> "Internal"

\* DownloadData::Metadata
MetaItem == [type |-> "Metadata", chunk |-> 0]
\* DownloadData::Chunk holding the i-th chunk of the body
ChunkItem(i) == [type |-> "Chunk", chunk |-> i]
\* Err(Status::internal("Read error: ..."))
ReadErrorItem == [type |-> "Error", chunk |-> 0]

\* tx.send(item).await: Err at once when the receiver is gone (ok is FALSE),
\* otherwise waits for capacity
DlSend(item, ok) ==
    IF ~dl_rx
       THEN ~ok /\ UNCHANGED <<dl_q, dl_sent>>
       ELSE /\ ok
            /\ Len(dl_q) < DownloadCap
            /\ dl_q' = Append(dl_q, item)
            /\ dl_sent' = Append(dl_sent, item)

\* object_repository.download(..): GetObject is issued
DlGet ==
    /\ gpc = "start"
    /\ gpc' = "get_wait"
    /\ UNCHANGED <<get_cause, dl_status, body_len, body_read, ditem, dl_q, dl_rx,
                   dl_sent, dl_delivered>>
    /\ UNCHANGED <<uploadVars, deleteVars, bucketVars>>

\* GetObject fails because the object is absent, the store is unreachable or
\* the store answers with an error: map_err(domain_error_to_status)?
DlGetFailed ==
    /\ gpc = "get_wait"
    /\ \E cause \in {"absent", "network", "store"} :
        /\ get_cause' = cause
        /\ dl_status' = StatusOf(GetObjectError(cause))
    /\ gpc' = "rejected"
    /\ UNCHANGED <<body_len, body_read, ditem, dl_q, dl_rx, dl_sent, dl_delivered>>
    /\ UNCHANGED <<uploadVars, deleteVars, bucketVars>>

\* GetObject succeeds: the channel is created and the streaming task spawned
DlGetOk ==
    /\ gpc = "get_wait"
    /\ \E n \in 0..MaxBodyChunks : body_len' = n
    /\ gpc' = "send_meta"
    /\ UNCHANGED <<get_cause, dl_status, body_read, ditem, dl_q, dl_rx, dl_sent,
                   dl_delivered>>
    /\ UNCHANGED <<uploadVars, deleteVars, bucketVars>>

\* a task that starts reading the body without sending the metadata
DlSkipMeta ==
    /\ gpc = "send_meta"
    /\ gpc' = "read"
    /\ UNCHANGED <<get_cause, dl_status, body_len, body_read, ditem, dl_q, dl_rx,
                   dl_sent, dl_delivered>>
    /\ UNCHANGED <<uploadVars, deleteVars, bucketVars>>

\* if tx.send(Ok(metadata_response)).await.is_err() { return; }
DlSendMeta ==
    /\ gpc = "send_meta"
    /\ \E ok \in BOOLEAN :
        /\ DlSend(MetaItem, ok)
        /\ gpc' = IF ok THEN "read" ELSE "done"
    /\ ditem' = MetaItem
    /\ UNCHANGED <<get_cause, dl_status, body_len, body_read, dl_rx, dl_delivered>>
    /\ UNCHANGED <<uploadVars, deleteVars, bucketVars>>

\* byte_stream.next() yields Some(Ok(bytes))
DlReadChunk ==
    /\ gpc = "read"
    /\ body_read < body_len
    /\ body_read' = body_read + 1
    /\ ditem' = ChunkItem(body_read + 1)
    /\ gpc' = "send_chunk"
    /\ UNCHANGED <<get_cause, dl_status, body_len, dl_q, dl_rx, dl_sent, dl_delivered>>
    /\ UNCHANGED <<uploadVars, deleteVars, bucketVars>>

\* byte_stream.next() yields Some(Err(e))
DlReadError ==
    /\ gpc = "read"
    /\ ditem' = ReadErrorItem
    /\ gpc' = "send_err"
    /\ UNCHANGED <<get_cause, dl_status, body_len, body_read, dl_q, dl_rx, dl_sent,
                   dl_delivered>>
    /\ UNCHANGED <<uploadVars, deleteVars, bucketVars>>

\* byte_stream.next() yields None: the task ends and tx is dropped
DlReadEnd ==
    /\ gpc = "read"
    /\ body_read = body_len
    /\ gpc' = "done"
    /\ UNCHANGED <<get_cause, dl_status, body_len, body_read, ditem, dl_q, dl_rx,
                   dl_sent, dl_delivered>>
    /\ UNCHANGED <<uploadVars, deleteVars, bucketVars>>

\* if tx.send(Ok(chunk_response)).await.is_err() { break; }
DlSendChunk ==
    /\ gpc = "send_chunk"
    /\ \E ok \in BOOLEAN :
        /\ DlSend(ditem, ok)
        /\ gpc' = IF ok THEN "read" ELSE "done"
    /\ UNCHANGED <<get_cause, dl_status, body_len, body_read, ditem, dl_rx, dl_delivered>>
    /\ UNCHANGED <<uploadVars, deleteVars, bucketVars>>

\* a task that goes on reading the body after it sent the error
DlSendErrContinue ==
    /\ gpc = "send_err"
    /\ \E ok \in BOOLEAN : DlSend(ditem, ok)
    /\ gpc' = "read"
    /\ UNCHANGED <<get_cause, dl_status, body_len, body_read, ditem, dl_rx, dl_delivered>>
    /\ UNCHANGED <<uploadVars, deleteVars, bucketVars>>

\* let _ = tx.send(Err(Status::internal(..))).await; break;
DlSendErr ==
    /\ gpc = "send_err"
    /\ \E ok \in BOOLEAN : DlSend(ditem, ok)
    /\ gpc' = "done"
    /\ UNCHANGED <<get_cause, dl_status, body_len, body_read, ditem, dl_rx, dl_delivered>>
    /\ UNCHANGED <<uploadVars, deleteVars, bucketVars>>

\* the client polls the response stream and gets the next item; an
\* Err(Status) item ends the response, and the stream is dropped after it
DlClientRead ==
    /\ gpc \notin {"start", "get_wait", "rejected"}
    /\ dl_rx
    /\ dl_q # <<>>
    /\ dl_delivered' = Append(dl_delivered, Head(dl_q))
    /\ dl_q' = Tail(dl_q)
    /\ dl_rx' = (Head(dl_q).type # "Error")
    /\ UNCHANGED <<gpc, get_cause, dl_status, body_len, body_read, ditem, dl_sent>>
    /\ UNCHANGED <<uploadVars, deleteVars, bucketVars>>

\* the client drops the response stream
DlClientDrop ==
    /\ gpc \notin {"start", "get_wait", "rejected"}
    /\ dl_rx
    /\ dl_rx' = FALSE
    /\ UNCHANGED <<gpc, get_cause, dl_status, body_len, body_read, ditem, dl_q,
                   dl_sent, dl_delivered>>
    /\ UNCHANGED <<uploadVars, deleteVars, bucketVars>>

\* a download_object request arrives
DownloadInit ==
    /\ UploadInit
    /\ DeleteOff
    /\ BucketIdle
    /\ gpc = "start"
    /\ DownloadIdle

DownloadNext ==
    \/ DlGet \/ DlGetFailed \/ DlGetOk
    \/ DlSendMeta \/ DlReadChunk \/ DlReadError \/ DlReadEnd
    \/ DlSendChunk \/ DlSendErr
    \/ DlClientRead \/ DlClientDrop

SpecDownload == DownloadInit /\ [][DownloadNext]_vars

\* ------------------------------------------------------------ BucketAggregate
\* Aliases are sequences of characters.
\* the longest alias GlobalAlias::validate accepts
AliasLimit == 63
\* c.is_ascii_lowercase()
IsLower(c) == c \in {"a", "b"}
\* c.is_ascii_digit()
IsDigit(c) == c \in {"1"}
\* c.is_ascii_alphanumeric()
IsAlnum(c) == c \in {"a", "b", "1", "A"}

\* GlobalAlias::validate: 1-63 characters, alphanumeric first and last
\* character, only lowercase letters, digits and hyphens, no "--"
ValidAlias(a) ==
    /\ Len(a) >= 1
    /\ Len(a) <= AliasLimit
    /\ IsAlnum(a[1])
    /\ IsAlnum(a[Len(a)])
    /\ \A i \in 1..Len(a) : IsLower(a[i]) \/ IsDigit(a[i]) \/ a[i] = "-"
    /\ \A i \in 1..(Len(a) - 1) : ~(a[i] = "-" /\ a[i + 1] = "-")

\* an alias one character longer than the limit
LongAlias == [i \in 1..(AliasLimit + 1) |-> "a"]
\* the alias strings a caller may pass
AliasInputs ==
    {<<"a">>, <<"b">>, <<"a", "-", "b">>, <<"b", "1">>,
     <<>>, <<"A">>, <<"-", "a">>, <<"a", "-", "-", "b">>, LongAlias}

\* a membership test that never finds the alias
AliasNeverPresent(q, a) == FALSE
\* self.global_aliases.contains(&new_alias)
AliasPresent(q, a) == a \in Range(q)
\* self.global_aliases.retain(|a| a != &target)
Retain(q, target) == SelectSeq(q, LAMBDA x : x # target)

\* the call and what it returned
AliasCall(op, a, kind) == [op |-> op, alias |-> a, kind |-> kind]

\* BucketAggregate::create(id, None)
BucketCreateNoAlias ==
    /\ bkpc = "new"
    /\ global_aliases' = <<>>
    /\ bkpc' = "live"
    /\ UNCHANGED <<alias_last, alias_ops>>
    /\ UNCHANGED <<uploadVars, deleteVars, downloadVars>>

\* BucketAggregate::create(id, Some(alias)): GlobalAlias::new(alias)?
BucketCreate ==
    /\ bkpc = "new"
    /\ \E a \in AliasInputs :
        IF ValidAlias(a)
           THEN global_aliases' = <<a>> /\ bkpc' = "live"
           ELSE global_aliases' = <<>> /\ bkpc' = "failed"
    /\ UNCHANGED <<alias_last, alias_ops>>
    /\ UNCHANGED <<uploadVars, deleteVars, downloadVars>>

\* add_global_alias(alias)
AddGlobalAlias ==
    /\ bkpc = "live"
    /\ alias_ops < MaxAliasOps
    /\ \E a \in AliasInputs :
        IF ~ValidAlias(a)
           THEN /\ alias_last' = AliasCall("add", a, "InvalidBucketName")
                /\ UNCHANGED global_aliases
           ELSE IF AliasPresent(global_aliases, a)
                   THEN /\ alias_last' = AliasCall("add", a, "BucketAlreadyExists")
                        /\ UNCHANGED global_aliases
                   ELSE /\ alias_last' = AliasCall("add", a, "Ok")
                        /\ global_aliases' = Append(global_aliases, a)
    /\ alias_ops' = alias_ops + 1
    /\ UNCHANGED bkpc
    /\ UNCHANGED <<uploadVars, deleteVars, downloadVars>>

\* remove_global_alias(alias)
RemoveGlobalAlias ==
    /\ bkpc = "live"
    /\ alias_ops < MaxAliasOps
    /\ \E a \in AliasInputs :
        IF ~ValidAlias(a)
           THEN /\ alias_last' = AliasCall("remove", a, "InvalidBucketName")
                /\ UNCHANGED global_aliases
           ELSE /\ global_aliases' = Retain(global_aliases, a)
                /\ alias_last' = AliasCall("remove", a,
                       IF Len(Retain(global_aliases, a)) = Len(global_aliases)
                          THEN "BucketNotFound" ELSE "Ok")
    /\ alias_ops' = alias_ops + 1
    /\ UNCHANGED bkpc
    /\ UNCHANGED <<uploadVars, deleteVars, downloadVars>>

\* BucketAggregate::create is about to be called
BucketInit ==
    /\ UploadInit
    /\ DeleteOff
    /\ gpc = "idle"
    /\ DownloadIdle
    /\ bkpc = "new"
    /\ global_aliases = <<>>
    /\ alias_last = NoAliasCall
    /\ alias_ops = 0

BucketNext ==
    \/ BucketCreateNoAlias \/ BucketCreate
    \/ AddGlobalAlias \/ RemoveGlobalAlias

SpecBucket == BucketInit /\ [][BucketNext]_vars

\* ------------------------------------------------------------ observations of the delete path
\* the calls with operation op, in the order they were issued
DCallsSeq(op) == SelectSeq(dcalls, LAMBDA c : c.op = op)
\* the keys under the folder prefix when the command arrived
Matching0 == {k \in bucket0 : HasPrefix(k, FolderKey)}
\* the command is one recursive delete of the folder prefix
RecursiveOnly == cmd_keys = <<FolderKey>>
\* no call failed and no key was reported as an error
NoStoreErrors ==
    \A i \in 1..Len(dcalls) : dcalls[i].resp # "err" /\ dcalls[i].errors = <<>>
\* the smaller of two numbers
Min(a, b) == IF a < b THEN a ELSE b
\* the handler returned
DeleteReturned == dpc = "done"

\* ------------------------------------------------------------ C16
\* C16: with no store error, a recursive delete over a prefix matching M keys
\* issues listings that return the keys page by page (page i holds
\* min(PageSize, M - (i-1)*PageSize) keys), one batch delete per non-empty
\* page, never more than ceil(M/PageSize) of each (one listing when M = 0),
\* and returns deleted = exactly the M keys, each once, and errors empty,
\* after exactly ceil(M/PageSize) batch deletes and at least as many listings.
C16_RecursiveDeleteAll ==
    LET M == Cardinality(Matching0)
        lists == DCallsSeq("List")
        dels == DCallsSeq("Delete")
    IN (RecursiveOnly /\ NoStoreErrors) =>
        /\ Len(dels) <= CeilDiv(M, PageSize)
        /\ Len(lists) <= (IF M = 0 THEN 1 ELSE CeilDiv(M, PageSize))
        /\ \A i \in 1..Len(lists) :
              lists[i].resp = "ok" =>
                  Len(lists[i].objects) = Min(PageSize, M - (i - 1) * PageSize)
        /\ DeleteReturned =>
              /\ outcome.kind = "Ok"
              /\ Range(outcome.deleted) = Matching0
              /\ Len(outcome.deleted) = M
              /\ outcome.errors = <<>>
              /\ Len(dels) = CeilDiv(M, PageSize)
              /\ Len(lists) >= CeilDiv(M, PageSize)
              /\ bucket = bucket0 \ Matching0

\* a recursive delete of more than two full pages returned without any error
C16_Witness ==
    /\ RecursiveOnly
    /\ NoStoreErrors
    /\ DeleteReturned
    /\ Cardinality(Matching0) > 2 * PageSize
    /\ Len(DCallsSeq("Delete")) = 3
    /\ Len(DCallsSeq("List")) = 3

\* ------------------------------------------------------------ C17
\* C17: delete_objects_recursive terminates, also when keys fail to delete
\* and stay in the bucket: every listing after the first continues from a
\* token that lies strictly after the token of the listing before, so one
\* recursive delete makes at most one listing per page of the keys the prefix
\* matched (one when it matched none), and the handler eventually returns.
C17_RecursiveDeleteTerminates ==
    /\ [](RecursiveOnly =>
            /\ Len(DCallsSeq("List")) <=
                   (IF Matching0 = {} THEN 1 ELSE CeilDiv(Cardinality(Matching0), PageSize))
            /\ \A i \in 2..Len(DCallsSeq("List")) :
                   DCallsSeq("List")[i].token > DCallsSeq("List")[i - 1].token)
    /\ <>DeleteReturned

\* a recursive delete returned after a key of the first page failed to delete
\* and the loop went on to a second page
C17_Witness ==
    /\ RecursiveOnly
    /\ DeleteReturned
    /\ outcome.kind = "Ok"
    /\ outcome.errors # <<>>
    /\ Len(DCallsSeq("List")) >= 2
    /\ DCallsSeq("Delete")[1].errors # <<>>

\* ------------------------------------------------------------ C18
\* no element occurs twice in the sequence
NoDuplicates(q) == \A i, j \in 1..Len(q) : q[i] = q[j] => i = j

\* C18: in the outcome of a delete command that names each key once, every
\* key appears at most once over deleted and errors together, both in the
\* accumulators of the recursive delete and in the handler's result.
C18_KeyAtMostOnce ==
    NoDuplicates(cmd_keys) =>
        /\ NoDuplicates(all_deleted \o all_errors)
        /\ outcome.kind = "Ok" => NoDuplicates(outcome.deleted \o outcome.errors)

\* the same statement for one recursive delete alone
C18_RecursiveOnly ==
    RecursiveOnly =>
        /\ NoDuplicates(all_deleted \o all_errors)
        /\ outcome.kind = "Ok" => NoDuplicates(outcome.deleted \o outcome.errors)

\* ------------------------------------------------------------ C19
\* the error the handler returns for a failed call
ErrorOf(c) == ErrOutcome(IF c.op = "List" THEN "ListFailed" ELSE "DeleteFailed")

\* C19: a listing or batch-delete call of a recursive delete that fails is the
\* last store call issued: the operation has returned, with the error of
\* that call, in the very step the failure arrived.
C19_FailureReturnsAtOnce ==
    \A i \in 1..Len(dcalls) :
        (dcalls[i].resp = "err" /\ dcalls[i].prefix = FolderKey) =>
            /\ i = Len(dcalls)
            /\ DeleteReturned
            /\ outcome = ErrorOf(dcalls[i])

\* the second listing of a recursive delete failed after a page was deleted
C19_Witness ==
    /\ Len(dcalls) = 3
    /\ dcalls[2].op = "Delete" /\ dcalls[2].resp = "ok"
    /\ dcalls[3].op = "List" /\ dcalls[3].resp = "err"
    /\ DeleteReturned

\* ------------------------------------------------------------ C20
\* the keys the store removed while the command was handled
Removed == bucket0 \ bucket

\* C20: whenever the handler returns after some keys were deleted, the caller
\* gets a DeleteOutcome whose deleted list holds those keys, also when other
\* keys could not be deleted, and not a single failure that omits them.
C20_PartialSuccessReported ==
    (DeleteReturned /\ Removed # {}) =>
        /\ outcome.kind = "Ok"
        /\ Removed \subseteq Range(outcome.deleted)

\* the part of the statement that concerns keys the store reports as failed
\* in the response of a batch delete: they are listed in errors
C20_PerKeyErrorsReported ==
    (DeleteReturned /\ outcome.kind = "Ok") =>
        /\ Removed \subseteq Range(outcome.deleted)
        /\ \A i \in 1..Len(dcalls) :
              Range(dcalls[i].errors) \subseteq Range(outcome.errors)

\* ------------------------------------------------------------ C21
\* the positions of the items of a given type in a sequence of items
ItemsOf(q, t) == {i \in 1..Len(q) : q[i].type = t}

\* C21: on the download response stream the first item is the metadata
\* message and no other item is one, so every body chunk comes after it; once
\* the streaming task is past the metadata send, the stream holds exactly one
\* metadata message unless that send failed, and then it holds nothing and
\* the task has ended without reading the body.
C21_MetadataOnceAndFirst ==
    /\ ItemsOf(dl_sent, "Metadata") \subseteq {1}
    /\ dl_sent # <<>> => dl_sent[1] = MetaItem
    /\ gpc \in {"read", "send_chunk", "send_err"} => dl_sent # <<>>
    /\ (gpc = "done" /\ dl_sent = <<>>) => (body_read = 0 /\ ditem = MetaItem)
    /\ \A i \in 1..Len(dl_delivered) : dl_delivered[i] = dl_sent[i]

\* the client read the metadata and then two chunks
C21_Witness ==
    /\ Len(dl_delivered) >= 3
    /\ dl_delivered[1] = MetaItem
    /\ dl_delivered[3] = ChunkItem(2)

\* the metadata could not be delivered: the client had dropped the stream
C21_UndeliveredWitness ==
    /\ gpc = "done"
    /\ dl_sent = <<>>
    /\ body_len > 0

\* ------------------------------------------------------------ C22
\* the body read failed: the streaming task holds or has sent the error
ReadFailed == ditem = ReadErrorItem

\* the item at position i of the stream of a download whose body yields
\* chunks 1, 2, ... : the metadata, then the chunks in order
ExpectedItem(i) == IF i = 1 THEN MetaItem ELSE ChunkItem(i - 1)

\* C22: when reading the body fails after k chunks were forwarded, the
\* stream holds the metadata and those k chunks in order, then at most one
\* error as its last item, and the task ends after sending it; what the
\* client has read is a prefix of the stream and, while the client holds the
\* stream, nothing the channel accepted is lost, so the client gets the k
\* chunks, then the error, after which the stream is closed.
C22_ErrorAfterChunks ==
    /\ \A i \in 1..Len(dl_delivered) : dl_delivered[i] = dl_sent[i]
    /\ dl_rx => dl_sent = dl_delivered \o dl_q
    /\ ItemsOf(dl_sent, "Error") \subseteq {Len(dl_sent)}
    /\ \A i \in 1..Len(dl_sent) : dl_sent[i].type # "Error" => dl_sent[i] = ExpectedItem(i)
    /\ ReadFailed =>
          /\ gpc \in {"send_err", "done"}
          /\ Len(dl_sent) - Cardinality(ItemsOf(dl_sent, "Error")) = 1 + body_read
          /\ (gpc = "done" /\ dl_rx) => ItemsOf(dl_sent, "Error") = {Len(dl_sent)}
    /\ ItemsOf(dl_delivered, "Error") # {} =>
          /\ gpc = "done"
          /\ dl_q = <<>>
          /\ dl_delivered = dl_sent

\* the client read the metadata, two chunks and then the error
C22_Witness ==
    /\ Len(dl_delivered) = 4
    /\ dl_delivered[3] = ChunkItem(2)
    /\ dl_delivered[4] = ReadErrorItem

\* ------------------------------------------------------------ C23
\* C23: download fails with NotFound when the store reports the object
\* absent, and with a code other than NotFound when the store is unreachable
\* or answers GetObject with another error.
C23_NotFoundOnlyWhenAbsent ==
    /\ get_cause = "absent" => dl_status = "NotFound"
    /\ get_cause \in {"network", "store"} => dl_status # "NotFound"

\* ------------------------------------------------------------ C24
\* the step is an alias call
AliasCallStep == alias_ops' # alias_ops

\* C24: the global alias list of an aggregate obtained from create never
\* holds a duplicate; add_global_alias of an alias already present returns
\* an error and leaves the list unchanged, and remove_global_alias of an
\* alias not present returns an error and leaves the list unchanged.
C24_NoDuplicateAlias ==
    /\ []NoDuplicates(global_aliases)
    /\ [][AliasCallStep =>
            /\ (alias_last'.op = "add" /\ alias_last'.alias \in Range(global_aliases)) =>
                  (alias_last'.kind = "BucketAlreadyExists" /\ UNCHANGED global_aliases)
            /\ (alias_last'.op = "remove" /\ alias_last'.alias \notin Range(global_aliases)) =>
                  (alias_last'.kind \in {"BucketNotFound", "InvalidBucketName"}
                   /\ UNCHANGED global_aliases)]_vars

\* an add of an alias already in a list of three aliases was rejected
C24_Witness ==
    /\ alias_last.op = "add"
    /\ alias_last.kind = "BucketAlreadyExists"
    /\ Len(global_aliases) = 3

\* ------------------------------------------------------------ C25
\* the operations that need an open session
SessionOps == {"UploadPart", "CompleteMultipartUpload", "AbortMultipartUpload"}
\* the calls that end a session
EndingCalls == CallsOf("CompleteMultipartUpload") \cup CallsOf("AbortMultipartUpload")

\* C25: every UploadPart, Complete and Abort call comes after the one
\* CreateMultipartUpload call, which succeeded and returned the upload id the
\* call carries; at most one Complete or Abort call is ever issued; and that
\* call is the last store call of the session.
C25_SessionStateMachine ==
    /\ \A i \in 1..Len(calls) :
          calls[i].op \in SessionOps =>
              /\ i > 1
              /\ calls[1].op = "CreateMultipartUpload"
              /\ calls[1].resp = "ok"
              /\ calls[1].newid \in UploadIds
              /\ calls[i].uid = calls[1].newid
    /\ Cardinality(CallsOf("CreateMultipartUpload")) <= 1
    /\ Cardinality(EndingCalls) <= 1
    /\ \A i \in EndingCalls : i = Len(calls)

\* the upload returned after two parts were uploaded and Complete failed
C25_Witness ==
    /\ Returned
    /\ Failed("CompleteMultipartUpload")
    /\ Len(CallsSeq("UploadPart")) = 2

\* ------------------------------------------------------------ C26
\* C26: CompleteMultipartUpload is never issued with an empty part list.
C26_CompleteHasParts ==
    \A i \in CallsOf("CompleteMultipartUpload") : calls[i].parts # <<>>

\* ------------------------------------------------------------ C27
\* C27: in one recursive delete the first listing carries no continuation
\* token, every later listing carries the next_continuation_token returned by
\* the listing before it, and no later listing is issued without a token (a
\* restart from the beginning of the prefix), whatever the store returned.
C27_TokenChain ==
    RecursiveOnly =>
        LET ls == DCallsSeq("List")
        IN /\ ls # <<>> => ls[1].token = NoToken
           /\ \A i \in 2..Len(ls) :
                  /\ ls[i].token = ls[i - 1].next_continuation_token
                  /\ ls[i].token # NoToken

\* on pages that honour the contract the chain holds: each later listing
\* carries the token of the page before it
C27_ContractKept ==
    (RecursiveOnly /\ BadPages = {}) =>
        LET ls == DCallsSeq("List")
        IN /\ ls # <<>> => ls[1].token = NoToken
           /\ \A i \in 2..Len(ls) :
                  /\ ls[i].token = ls[i - 1].next_continuation_token
                  /\ ls[i].token # NoToken

\* ------------------------------------------------------------ C28
\* C28: in one recursive delete listing and batch-delete calls strictly
\* alternate, starting with a listing; each batch delete carries exactly the
\* keys of the page listed just before it and is never issued for an empty
\* page; an empty page is the last call of the loop.
C28_DeleteFollowsPage ==
    RecursiveOnly =>
        \A i \in 1..Len(dcalls) :
            /\ dcalls[i].op = (IF i % 2 = 1 THEN "List" ELSE "Delete")
            /\ dcalls[i].op = "Delete" =>
                   /\ dcalls[i - 1].resp = "ok"
                   /\ dcalls[i].keys = dcalls[i - 1].objects
                   /\ dcalls[i].keys # <<>>
            /\ (dcalls[i].op = "List" /\ dcalls[i].resp = "ok"
                    /\ dcalls[i].objects = <<>>) =>
                   i = Len(dcalls)

\* a recursive delete returned after two pages, each followed by its batch
C28_Witness ==
    /\ RecursiveOnly
    /\ DeleteReturned
    /\ outcome.kind = "Ok"
    /\ Len(dcalls) = 4
    /\ dcalls[4].keys = dcalls[3].objects
    /\ dcalls[2].keys # dcalls[4].keys

\* a recursive delete returned after an empty first page, without a delete call
C28_EmptyPageWitness ==
    /\ RecursiveOnly
    /\ DeleteReturned
    /\ outcome.kind = "Ok"
    /\ Len(dcalls) = 1
    /\ dcalls[1].resp = "ok"
    /\ dcalls[1].objects = <<>>

\* ------------------------------------------------------------ C29
\* the UploadPart calls that succeeded
PartsUploaded == {i \in CallsOf("UploadPart") : calls[i].resp = "ok"}

\* upload_object_multipart holds a PartUploaded event it has not sent yet
ProgressPending == upc \in {"send_progress", "send_final"}

\* the progress channel is open and has no capacity left
SinkFull == ProgressRxAlive /\ Len(progress_q) = ProgressCap

\* C29: while the progress sink is open it has accepted one PartUploaded event
\* per uploaded part, in part order, except the event the orchestrator is
\* about to send; and while the orchestrator is at a progress send with the
\* sink open and full, no step issues a store call or moves the orchestrator.
C29_NoProgressDropped ==
    /\ [](ProgressRxAlive =>
            /\ Cardinality(ItemsOf(emitted, "PartUploaded")) =
                   Cardinality(PartsUploaded) - (IF ProgressPending THEN 1 ELSE 0)
            /\ \A i \in 2..Len(emitted) :
                   emitted[i].type = "PartUploaded" /\ emitted[i].part_number = i - 1)
    /\ [][(AtProgressSend /\ SinkFull) =>
               (calls' = calls /\ upc' = upc /\ emitted' = emitted)]_vars

\* the orchestrator waits at the progress send of an uploaded part while the
\* sink and the response channel behind it are full and the progress task
\* waits on the response channel
C29_Witness ==
    /\ ProgressPending
    /\ Cardinality(ItemsOf(emitted, "PartUploaded")) = Cardinality(PartsUploaded) - 1
    /\ SinkFull
    /\ ppc = "send"
    /\ response_rx
    /\ Len(response_q) = ResponseCap

\* ------------------------------------------------------------ C30
\* the terminal messages the client has received
TerminalsDelivered == {i \in 1..Len(delivered) : IsTerminal(delivered[i])}

\* both response senders are dropped and the client has read the stream to
\* its end: to the first error status, or until the channel was empty
StreamClosed ==
    /\ upc = "done"
    /\ ppc = "done"
    /\ response_q = <<>> \/ ~response_rx

\* C30: once upload_object has returned the response stream, the client
\* never receives a second terminal message, and eventually it has received
\* exactly one, the upload task and the progress forwarding task have ended
\* and the stream is closed.
C30_StreamTerminates ==
    /\ [](Cardinality(TerminalsDelivered) <= 1)
    /\ (hpc = "streaming") ~> (StreamClosed /\ Cardinality(TerminalsDelivered) = 1)

\* the stream closed after the client read Initiated, a PartUploaded and the
\* UploadResult
C30_Witness ==
    /\ hpc = "streaming"
    /\ StreamClosed
    /\ Len(delivered) >= 3
    /\ \E i \in TerminalsDelivered : delivered[i].type = "Result"
====
